---- MODULE Spec2Model ----
(***************************************************************************)
(* A model of the DataDAO python client (datadao_client.py) and of the     *)
(* Dataset value object (datahub/dataset.py).                              *)
(*                                                                         *)
(* The client is a single-threaded, synchronous object: a caller invokes   *)
(* one operation, the operation runs to its return or to the exception it  *)
(* raises, and only then does the caller go on.  Every operation is one    *)
(* action; what it did before it returned or raised (remote reads,         *)
(* transactions, storage uploads and downloads) is recorded, in order, in  *)
(* the call record "last".                                                 *)
(***************************************************************************)
EXTENDS Integers, Sequences, FiniteSets, TLC

VARIABLES
    account,                    \* self.account: a private key, or None
    contract_registry_address,  \* self.contract_registry_address
    lighthouse_api_key,         \* self.lighthouse_api_key
    contracts,                  \* self.contracts: name -> contract address
    lookups,                    \* registry lookups of the latest _init_contracts
    w3,                         \* self.w3: the node the client talks to
    pc,                         \* the caller: "idle" or "returned"
    last,                       \* the record of the latest call
    np_random,                  \* the state of numpy's global generator
    samples,                    \* a Dataset value object
    split_args,                 \* the arguments its caller passes to split
    prev_split                  \* the record of the split call before last

vars == <<account, contract_registry_address, lighthouse_api_key, contracts,
          lookups, w3, pc, last, np_random, samples, split_args, prev_split>>

clientVars == <<account, contract_registry_address, lighthouse_api_key,
                contracts, lookups, w3>>

datasetVars == <<np_random, samples, split_args, prev_split>>

-----------------------------------------------------------------------------
(* Bounds of the model.                                                    *)

\* How many of the registry's lookups may fail or return the zero address
\* in one run of _init_contracts.
MaxBadLookups == 1

\* The largest number of samples of a Dataset.
MaxSamples == 4

\* train_ratio ranges over the multiples of 1/RatioDen in [-1, 2].
RatioDen == 4

\* The number of states of numpy's global generator.
RngStates == 6

\* The largest amount of tokens (a stake, a reward, a price, a balance).
MaxAmount == 2

\* The pages and page sizes asked of list_datasets are 1..MaxPage and
\* 1..MaxLimit.
MaxPage == 3
MaxLimit == 3

\* How many transactions the node accepts from the client in one behaviour.
MaxTransactions == 3

-----------------------------------------------------------------------------
(* Python values.                                                          *)

None == "None"

\* "not x" for an Optional[str]: None and the empty string are both false.
Falsy(x) == x = None \/ x = ""

EmptyTable == [n \in {} |-> ""]

\* A dict with one more (or one overwritten) key.
DictSet(d, k, v) == [x \in DOMAIN d \cup {k} |-> IF x = k THEN v ELSE d[x]]

-----------------------------------------------------------------------------
(* Accounts.                                                               *)

PrivateKeys == {"k1", "k2"}

\* Account.from_key(k).address
AddressOf(k) == IF k = "k1" THEN "0xA1" ELSE "0xA2"

\* self.account = Account.from_key(private_key) if private_key else None
AccountFromKey(private_key) == IF Falsy(private_key) THEN None ELSE private_key

Addresses == {AddressOf(k) : k \in PrivateKeys}

-----------------------------------------------------------------------------
(* The node behind self.w3.                                                *)

\* The node a new client is connected to: "count" is each address's
\* transaction count (the transactions of that address in blocks), "pending"
\* the transactions the node has accepted and not yet put in a block,
\* "accepted" every transaction the node has accepted, in order.
FreshNode ==
    [count |-> [a \in Addresses |-> 0], pending |-> {}, accepted |-> << >>]

\* self.w3.eth.get_transaction_count(address): the count at the latest
\* block.
get_transaction_count(address) == w3.count[address]

-----------------------------------------------------------------------------
(* The contract table.                                                     *)

ZeroAddress == "0x0000000000000000000000000000000000000000"

ContractNames ==
    << "DataDAOCore", "MembershipManager", "TaskManager", "DatasetRegistry",
       "RewardDistributor", "DealClient", "DataToken", "GovernanceModule" >>

NameSet == {ContractNames[i] : i \in 1..Len(ContractNames)}

\* The ABIs the constructor loads from the abis directory, one per contract.
Abis == NameSet \cup {"ContractRegistry"}

Registries == {"0xR1", "0xR2"}

\* The address a registry holds for a name it resolves.
Deployed(registry, name) == registry \o "/" \o name

\* What one getContractAddress(name).call() does: it raises ("fail"), or it
\* returns the zero address ("zero") or the deployed address ("ok").
LookupOutcomes == {"fail", "zero", "ok"}

\* The answers of a registry to the eight lookups of one run: all but at
\* most MaxBadLookups of them resolve.
LookupChoices ==
    UNION {{[n \in NameSet |-> IF n \in bad THEN o[n] ELSE "ok"] :
               o \in [bad -> LookupOutcomes \ {"ok"}]} :
           bad \in {b \in SUBSET NameSet : Cardinality(b) <= MaxBadLookups}}

Returned(registry, name, outcome) ==
    IF outcome = "zero" THEN ZeroAddress ELSE Deployed(registry, name)

\* The loop of _init_contracts from its i-th name on: "table" is
\* self.contracts so far, "calls" the lookups made so far.  An exception in
\* the body of one iteration is caught and the loop goes on.
RECURSIVE InitLoopAbort(_, _, _, _, _)
InitLoopAbort(i, registry, lk, table, calls) ==
    IF i > Len(ContractNames) THEN [contracts |-> table, calls |-> calls]
    ELSE LET name == ContractNames[i]
             made == Append(calls, <<name, lk[name]>>)
         IN  IF lk[name] = "fail" \/ name \notin Abis
             THEN [contracts |-> table, calls |-> made]
             ELSE LET address == Returned(registry, name, lk[name])
                  IN  InitLoopAbort(i + 1, registry, lk,
                          IF address # ZeroAddress
                          THEN DictSet(table, name, address) ELSE table,
                          made)

RECURSIVE InitLoop(_, _, _, _, _)
InitLoop(i, registry, lk, table, calls) ==
    IF i > Len(ContractNames) THEN [contracts |-> table, calls |-> calls]
    ELSE LET name == ContractNames[i]
             made == Append(calls, <<name, lk[name]>>)
         IN  IF lk[name] = "fail" \/ name \notin Abis
             THEN InitLoop(i + 1, registry, lk, table, made)
             ELSE LET address == Returned(registry, name, lk[name])
                  IN  InitLoop(i + 1, registry, lk,
                          IF address # ZeroAddress
                          THEN DictSet(table, name, address) ELSE table,
                          made)

\* _init_contracts: raises when the registry address is missing; otherwise
\* stores the registry itself and then every name the registry resolves.
_init_contracts(registry, lk, table) ==
    IF Falsy(registry)
    THEN [outcome |-> "ValueError",
          msg |-> "Contract registry address not provided",
          contracts |-> table, calls |-> << >>]
    ELSE [outcome |-> "ok", msg |-> ""] @@
         InitLoop(1, registry, lk,
                  DictSet(table, "ContractRegistry", registry), << >>)

\* __init__: the fields of a new client.
__init__(private_key, registry, api_key, lk) ==
    LET r == IF Falsy(registry)
             THEN [contracts |-> EmptyTable, calls |-> << >>]
             ELSE _init_contracts(registry, lk, EmptyTable)
    IN  [account |-> AccountFromKey(private_key),
         contract_registry_address |-> registry,
         lighthouse_api_key |-> api_key,
         contracts |-> r.contracts,
         lookups |-> r.calls,
         w3 |-> FreshNode]

NoCall == [op |-> "none", outcome |-> "ok", msg |-> "", effects |-> << >>]

ConstructorCall == [op |-> "__init__", outcome |-> "ok", msg |-> "",
                    effects |-> << >>]

DatasetIdle ==
    /\ np_random = 0
    /\ samples = [features |-> << >>, labels |-> << >>]
    /\ split_args = [train_ratio |-> <<0, 1>>, shuffle |-> FALSE]
    /\ prev_split = NoCall

\* A client as its constructor leaves it.
Constructed(private_key, registry, api_key, lk) ==
    \E c \in {__init__(private_key, registry, api_key, lk)} :
        /\ account = c.account
        /\ contract_registry_address = c.contract_registry_address
        /\ lighthouse_api_key = c.lighthouse_api_key
        /\ contracts = c.contracts
        /\ lookups = c.lookups
        /\ w3 = c.w3

\* set_contract_registry(address)
set_contract_registry(address, lk) ==
    \E r \in {_init_contracts(address, lk, contracts)} :
        /\ contract_registry_address' = address
        /\ contracts' = r.contracts
        /\ lookups' = r.calls
        /\ last' = [op |-> "set_contract_registry", outcome |-> r.outcome,
                    msg |-> r.msg, effects |-> << >>]
        /\ UNCHANGED <<account, lighthouse_api_key, w3, pc>>
        /\ UNCHANGED datasetVars

-----------------------------------------------------------------------------
(* The contract table alone: construction and set_contract_registry.       *)

InitRegistry ==
    /\ \E registry \in {None, ""} \cup Registries, lk \in LookupChoices :
            Constructed(None, registry, None, lk)
    /\ pc = "idle"
    /\ last = ConstructorCall
    /\ DatasetIdle

NextRegistry ==
    \/ \E address \in Registries, lk \in LookupChoices :
           set_contract_registry(address, lk)
    \/ set_contract_registry("", [n \in NameSet |-> "ok"])

SpecRegistry == InitRegistry /\ [][NextRegistry]_vars

-----------------------------------------------------------------------------
\* C8: after construction with a registry address the table holds
\* 'ContractRegistry' and exactly the names whose lookup succeeded with a
\* non-zero address, every one of the eight names having been looked up even
\* after a failed lookup; after construction without a registry address no
\* lookup was made and the table is empty.
C8_RegistryResolution ==
    last.op = "__init__" =>
        IF Falsy(contract_registry_address)
        THEN lookups = << >> /\ contracts = EmptyTable
        ELSE /\ "ContractRegistry" \in DOMAIN contracts
             /\ contracts["ContractRegistry"] = contract_registry_address
             /\ Len(lookups) = Len(ContractNames)
             /\ \A i \in 1..Len(ContractNames) :
                    LET name == ContractNames[i]
                    IN  /\ lookups[i][1] = name
                        /\ name \in DOMAIN contracts <=> lookups[i][2] = "ok"
                        /\ name \in DOMAIN contracts =>
                               contracts[name] =
                                   Deployed(contract_registry_address, name)
             /\ DOMAIN contracts \subseteq Abis

\* A client built with a registry in which an early lookup failed or
\* returned the zero address and a later name was still resolved.
C8_Witness ==
    /\ last.op = "__init__"
    /\ ~Falsy(contract_registry_address)
    /\ \E i, j \in 1..Len(ContractNames) :
           /\ i < j
           /\ lookups[i][2] = "fail"
           /\ ContractNames[j] \in DOMAIN contracts

-----------------------------------------------------------------------------
(* Calls, and what a call does before it returns or raises.                *)

\* The record of a call that raised: "effects" is what it had done by then.
Raised(op, args, exc, msg, effects) ==
    [op |-> op, args |-> args, outcome |-> exc, msg |-> msg,
     effects |-> effects, result |-> None]

\* The record of a call that returned "result".
Returns(op, args, effects, result) ==
    [op |-> op, args |-> args, outcome |-> "ok", msg |-> "",
     effects |-> effects, result |-> result]

\* A call that ends with the exception of one of its steps.
Fail(op, args, step, effects) ==
    Raised(op, args, step.outcome, step.msg, effects)

\* contract.functions.fn(args).call(): a remote read.
RemoteCall(to, fn, args, returned) ==
    [kind |-> "call", to |-> to, fn |-> fn, args |-> args,
     returned |-> returned]

\* The amounts of tokens, and the identifiers, callers pass.
Amounts == 1..MaxAmount
Counts == {1, 2}

\* _get_contract(name)
_get_contract(name) ==
    IF name \notin DOMAIN contracts
    THEN [outcome |-> "ValueError",
          msg |-> "Contract " \o name \o " not initialized"]
    ELSE [outcome |-> "ok", msg |-> "", address |-> contracts[name]]

\* Where a run of the transaction helper fails, if it does: building the
\* transaction (the node is asked for the nonce and the gas price), signing
\* it, sending it, or waiting for its receipt.
Faults == {"none", "build", "sign", "send", "wait"}

\* A receipt: its status and its logs.
Receipts(logs) == [status : {0, 1}, logs : logs]

NoLogs == {<< >>}

\* The helper, were it to send the transaction again when the wait for its
\* receipt fails.
_build_and_send_tx_again(to, fn, args, fault, receipt) ==
    LET tx == [kind |-> "tx", from |-> AddressOf(account), signer |-> account,
               to |-> to, fn |-> fn, args |-> args, value |-> 0]
    IN  IF account = None
        THEN [outcome |-> "ValueError", msg |-> "Private key not provided",
              effects |-> << >>]
        ELSE IF fault \in {"build", "send"}
        THEN [outcome |-> "RpcError", msg |-> fault, effects |-> << >>]
        ELSE IF fault = "sign"
        THEN [outcome |-> "SigningError", msg |-> fault, effects |-> << >>]
        ELSE IF fault = "wait"
        THEN [outcome |-> "TimeExhausted", msg |-> fault,
              effects |-> <<tx, tx>>]
        ELSE [outcome |-> "ok", msg |-> "",
              effects |-> <<tx, [kind |-> "receipt", of |-> fn,
                                 receipt |-> receipt]>>,
              receipt |-> receipt]

\* _build_and_send_tx(contract_function): the transaction is built for and
\* signed by self.account, sent, and its receipt awaited; the helper has the
\* effect "tx" once the transaction is sent and the effect "receipt" once
\* the wait for the receipt has returned.
_build_and_send_tx(to, fn, args, fault, receipt) ==
    LET tx == [kind |-> "tx", from |-> AddressOf(account), signer |-> account,
               to |-> to, fn |-> fn, args |-> args, value |-> 0]
    IN  IF account = None
        THEN [outcome |-> "ValueError", msg |-> "Private key not provided",
              effects |-> << >>]
        ELSE IF fault \in {"build", "send"}
        THEN [outcome |-> "RpcError", msg |-> fault, effects |-> << >>]
        ELSE IF fault = "sign"
        THEN [outcome |-> "SigningError", msg |-> fault, effects |-> << >>]
        ELSE IF fault = "wait"
        THEN [outcome |-> "TimeExhausted", msg |-> fault, effects |-> <<tx>>]
        ELSE [outcome |-> "ok", msg |-> "",
              effects |-> <<tx, [kind |-> "receipt", of |-> fn,
                                 receipt |-> receipt]>>,
              receipt |-> receipt]

\* The faults of the two helper runs of an operation: at most one of them
\* fails, since the operation ends with the first failure.
FaultPairs ==
    {<<f, "none">> : f \in Faults} \cup {<<"none", f>> : f \in Faults}

\* address.lower(): a contract address is a checksummed, mixed-case string.
ChecksumAddresses ==
    {Deployed(r, n) : r \in Registries, n \in NameSet}

Lower(address) ==
    IF address \in ChecksumAddresses THEN "lower(" \o address \o ")"
    ELSE address

\* The scan of a receipt's logs for the identifier an event carries: the
\* first log, from the i-th on, that the target contract emitted and that
\* parses as the event; a log that does not parse is skipped.
RECURSIVE ScanLogsAbort(_, _, _, _)
ScanLogsAbort(logs, i, target, event) ==
    IF i > Len(logs) THEN None
    ELSE IF Lower(logs[i].address) # Lower(target)
    THEN ScanLogsAbort(logs, i + 1, target, event)
    ELSE IF logs[i].event = event THEN logs[i].id
    ELSE None

RECURSIVE ScanLogs(_, _, _, _)
ScanLogs(logs, i, target, event) ==
    IF i > Len(logs) THEN None
    ELSE IF Lower(logs[i].address) = Lower(target) /\ logs[i].event = event
    THEN logs[i].id
    ELSE ScanLogs(logs, i + 1, target, event)

\* The logs a receipt may carry for an action on contract "target" that
\* emits "event": none, the event, a log of another contract before the
\* event under the lower-case form of the target's address, a log of the
\* target that is not the event, and such a log before two of the event.
ReceiptLogs(target, event) ==
    {<< >>,
     <<[address |-> target, event |-> event, id |-> "id1"]>>,
     <<[address |-> "0xother", event |-> event, id |-> "id2"],
       [address |-> Lower(target), event |-> event, id |-> "id3"]>>,
     <<[address |-> target, event |-> "Transfer", id |-> "id4"]>>,
     <<[address |-> target, event |-> "Transfer", id |-> "id5"],
       [address |-> target, event |-> event, id |-> "id6"],
       [address |-> target, event |-> event, id |-> "id7"]>>}

-----------------------------------------------------------------------------
(* Operations that send transactions.                                      *)

\* join_dao, were it to join before it approves.
join_dao_acts_first(amount, faults, receipts) ==
    LET op == "join_dao"
        args == [amount |-> amount]
        membership_manager == _get_contract("MembershipManager")
        data_token == _get_contract("DataToken")
    IN  IF membership_manager.outcome # "ok"
        THEN Fail(op, args, membership_manager, << >>)
        ELSE IF data_token.outcome # "ok"
        THEN Fail(op, args, data_token, << >>)
        ELSE
        LET join_tx == _build_and_send_tx(membership_manager.address,
                           "joinDAO", <<amount>>, faults[1], receipts[1])
        IN  IF join_tx.outcome # "ok"
            THEN Fail(op, args, join_tx, join_tx.effects)
            ELSE
            LET approve_tx == _build_and_send_tx(data_token.address,
                                  "approve",
                                  <<membership_manager.address, amount>>,
                                  faults[2], receipts[2])
                effects == join_tx.effects \o approve_tx.effects
            IN  IF approve_tx.outcome # "ok"
                THEN Fail(op, args, approve_tx, effects)
                ELSE Returns(op, args, effects,
                             [approve_tx |-> approve_tx.receipt,
                              join_tx |-> join_tx.receipt])

\* join_dao(amount)
join_dao(amount, faults, receipts) ==
    LET op == "join_dao"
        args == [amount |-> amount]
        membership_manager == _get_contract("MembershipManager")
        data_token == _get_contract("DataToken")
    IN  IF membership_manager.outcome # "ok"
        THEN Fail(op, args, membership_manager, << >>)
        ELSE IF data_token.outcome # "ok"
        THEN Fail(op, args, data_token, << >>)
        ELSE
        LET approve_tx == _build_and_send_tx(data_token.address, "approve",
                              <<membership_manager.address, amount>>,
                              faults[1], receipts[1])
        IN  IF approve_tx.outcome # "ok"
            THEN Fail(op, args, approve_tx, approve_tx.effects)
            ELSE
            LET join_tx == _build_and_send_tx(membership_manager.address,
                               "joinDAO", <<amount>>, faults[2], receipts[2])
                effects == approve_tx.effects \o join_tx.effects
            IN  IF join_tx.outcome # "ok"
                THEN Fail(op, args, join_tx, effects)
                ELSE Returns(op, args, effects,
                             [approve_tx |-> approve_tx.receipt,
                              join_tx |-> join_tx.receipt])

\* The arguments of create_task: the four that decide the reward, the others
\* being passed through to the contract as they are.
CreateTaskArgs ==
    [title : {"title"}, description : {"description"}, task_type : {0},
     reward : Amounts, review_reward : Amounts,
     required_submissions : Counts, required_validations : Counts,
     deadline : {1700000000}, privacy_level : {0},
     access_conditions_cid : {"QmAccess"}, instructions_cid : {"QmInstr"}]

\* create_task, were it to raise when the receipt of the approval reports
\* failure.
create_task_checks_status(args, faults, receipts) ==
    LET op == "create_task"
        task_manager == _get_contract("TaskManager")
        data_token == _get_contract("DataToken")
        total_reward ==
            args.reward * args.required_submissions
            + args.review_reward * args.required_submissions
                * args.required_validations
    IN  IF task_manager.outcome # "ok"
        THEN Fail(op, args, task_manager, << >>)
        ELSE IF data_token.outcome # "ok"
        THEN Fail(op, args, data_token, << >>)
        ELSE
        LET approve_tx == _build_and_send_tx(data_token.address, "approve",
                              <<task_manager.address, total_reward>>,
                              faults[1], receipts[1])
        IN  IF approve_tx.outcome # "ok"
            THEN Fail(op, args, approve_tx, approve_tx.effects)
            ELSE IF approve_tx.receipt.status = 0
            THEN Raised(op, args, "RpcError", "approval failed",
                        approve_tx.effects)
            ELSE
            LET create_tx == _build_and_send_tx(task_manager.address,
                                 "createTask", args, faults[2], receipts[2])
                effects == approve_tx.effects \o create_tx.effects
            IN  IF create_tx.outcome # "ok"
                THEN Fail(op, args, create_tx, effects)
                ELSE Returns(op, args, effects,
                         [approve_tx |-> approve_tx.receipt,
                          create_tx |-> create_tx.receipt,
                          task_id |-> ScanLogs(create_tx.receipt.logs, 1,
                                         task_manager.address, "TaskCreated")])

\* create_task(title, ..., instructions_cid)
create_task(args, faults, receipts) ==
    LET op == "create_task"
        task_manager == _get_contract("TaskManager")
        data_token == _get_contract("DataToken")
        total_reward ==
            args.reward * args.required_submissions
            + args.review_reward * args.required_submissions
                * args.required_validations
    IN  IF task_manager.outcome # "ok"
        THEN Fail(op, args, task_manager, << >>)
        ELSE IF data_token.outcome # "ok"
        THEN Fail(op, args, data_token, << >>)
        ELSE
        LET approve_tx == _build_and_send_tx(data_token.address, "approve",
                              <<task_manager.address, total_reward>>,
                              faults[1], receipts[1])
        IN  IF approve_tx.outcome # "ok"
            THEN Fail(op, args, approve_tx, approve_tx.effects)
            ELSE
            LET create_tx == _build_and_send_tx(task_manager.address,
                                 "createTask", args, faults[2], receipts[2])
                effects == approve_tx.effects \o create_tx.effects
            IN  IF create_tx.outcome # "ok"
                THEN Fail(op, args, create_tx, effects)
                ELSE Returns(op, args, effects,
                         [approve_tx |-> approve_tx.receipt,
                          create_tx |-> create_tx.receipt,
                          task_id |-> ScanLogs(create_tx.receipt.logs, 1,
                                         task_manager.address, "TaskCreated")])

\* validate_submission(submission_id, approved)
validate_submission(submission_id, approved, fault, receipt) ==
    LET op == "validate_submission"
        args == [submission_id |-> submission_id, approved |-> approved]
        task_manager == _get_contract("TaskManager")
    IN  IF task_manager.outcome # "ok"
        THEN Fail(op, args, task_manager, << >>)
        ELSE
        LET validate_tx == _build_and_send_tx(task_manager.address,
                               "validateSubmission",
                               <<submission_id, approved>>, fault, receipt)
        IN  IF validate_tx.outcome # "ok"
            THEN Fail(op, args, validate_tx, validate_tx.effects)
            ELSE Returns(op, args, validate_tx.effects,
                         [validate_tx |-> validate_tx.receipt])

\* The arguments of create_dataset, passed through to the contract.
CreateDatasetArgs ==
    [name : {"name"}, description : {"description"},
     metadata_cid : {"QmMeta"}, data_cid : {"QmData"},
     is_encrypted : BOOLEAN, access_conditions_cid : {"QmAccess"},
     access_type : {0, 4}, price : Amounts, task_ids : {<<"task1">>}]

\* create_dataset(name, ..., task_ids)
create_dataset(args, fault, receipt) ==
    LET op == "create_dataset"
        dataset_registry == _get_contract("DatasetRegistry")
    IN  IF dataset_registry.outcome # "ok"
        THEN Fail(op, args, dataset_registry, << >>)
        ELSE
        LET create_tx == _build_and_send_tx(dataset_registry.address,
                             "createDataset", args, fault, receipt)
        IN  IF create_tx.outcome # "ok"
            THEN Fail(op, args, create_tx, create_tx.effects)
            ELSE Returns(op, args, create_tx.effects,
                     [create_tx |-> create_tx.receipt,
                      dataset_id |-> ScanLogs(create_tx.receipt.logs, 1,
                                        dataset_registry.address,
                                        "DatasetCreated")])

\* The arguments of create_proposal, passed through to the contract.
CreateProposalArgs ==
    [title : {"title"}, description : {"description"}, proposal_type : {0},
     targets : {<<"0xT">>}, values : {<<0>>}, calldatas : {<<"0x">>},
     signatures : {<<"f()">>}]

\* create_proposal(title, ..., signatures)
create_proposal(args, fault, receipt) ==
    LET op == "create_proposal"
        governance_module == _get_contract("GovernanceModule")
    IN  IF governance_module.outcome # "ok"
        THEN Fail(op, args, governance_module, << >>)
        ELSE
        LET propose_tx == _build_and_send_tx(governance_module.address,
                              "propose", args, fault, receipt)
        IN  IF propose_tx.outcome # "ok"
            THEN Fail(op, args, propose_tx, propose_tx.effects)
            ELSE Returns(op, args, propose_tx.effects,
                     [propose_tx |-> propose_tx.receipt,
                      proposal_id |-> ScanLogs(propose_tx.receipt.logs, 1,
                                         governance_module.address,
                                         "ProposalCreated")])

\* vote_on_proposal(proposal_id, vote_type)
vote_on_proposal(proposal_id, vote_type, fault, receipt) ==
    LET op == "vote_on_proposal"
        args == [proposal_id |-> proposal_id, vote_type |-> vote_type]
        governance_module == _get_contract("GovernanceModule")
    IN  IF governance_module.outcome # "ok"
        THEN Fail(op, args, governance_module, << >>)
        ELSE
        LET vote_tx == _build_and_send_tx(governance_module.address,
                           "castVote", <<proposal_id, vote_type>>,
                           fault, receipt)
        IN  IF vote_tx.outcome # "ok"
            THEN Fail(op, args, vote_tx, vote_tx.effects)
            ELSE Returns(op, args, vote_tx.effects,
                         [vote_tx |-> vote_tx.receipt])

\* execute_proposal(proposal_id)
execute_proposal(proposal_id, fault, receipt) ==
    LET op == "execute_proposal"
        args == [proposal_id |-> proposal_id]
        governance_module == _get_contract("GovernanceModule")
    IN  IF governance_module.outcome # "ok"
        THEN Fail(op, args, governance_module, << >>)
        ELSE
        LET execute_tx == _build_and_send_tx(governance_module.address,
                              "executeProposal", <<proposal_id>>,
                              fault, receipt)
        IN  IF execute_tx.outcome # "ok"
            THEN Fail(op, args, execute_tx, execute_tx.effects)
            ELSE Returns(op, args, execute_tx.effects,
                         [execute_tx |-> execute_tx.receipt])

\* claim_from_faucet()
claim_from_faucet(fault, receipt) ==
    LET op == "claim_from_faucet"
        args == << >>
        data_token == _get_contract("DataToken")
    IN  IF data_token.outcome # "ok"
        THEN Fail(op, args, data_token, << >>)
        ELSE
        LET claim_tx == _build_and_send_tx(data_token.address,
                            "claimFromFaucet", << >>, fault, receipt)
        IN  IF claim_tx.outcome # "ok"
            THEN Fail(op, args, claim_tx, claim_tx.effects)
            ELSE Returns(op, args, claim_tx.effects,
                         [claim_tx |-> claim_tx.receipt])

-----------------------------------------------------------------------------
(* Datasets on chain, and the storage bridge.                              *)

\* t[i] for a tuple a contract call returned, i counted from 0.
At(t, i) == t[i + 1]

\* The record getDataset returns: sixteen values in the contract's order.
DatasetRecord(data_cid, is_encrypted, access_type, price) ==
    << "v0", "v1", "v2", "v3", "v4", data_cid, is_encrypted, "v7",
       access_type, price, "v10", "v11", "v12", "v13", "v14", "v15" >>

DatasetRecords ==
    {DatasetRecord(c, e, t, p) :
        c \in {"QmData"}, e \in BOOLEAN, t \in {0, 4}, p \in Amounts}
    \cup {DatasetRecord("QmOther", FALSE, 1, 1)}

\* purchase_dataset_access, were it to reset the allowance when the purchase
\* fails.
purchase_dataset_access_resets(dataset_id, duration, dataset, faults, receipts) ==
    LET op == "purchase_dataset_access"
        args == [dataset_id |-> dataset_id, duration |-> duration]
        dataset_registry == _get_contract("DatasetRegistry")
        data_token == _get_contract("DataToken")
    IN  IF dataset_registry.outcome # "ok"
        THEN Fail(op, args, dataset_registry, << >>)
        ELSE IF data_token.outcome # "ok"
        THEN Fail(op, args, data_token, << >>)
        ELSE
        LET read == <<RemoteCall(dataset_registry.address, "getDataset",
                                 <<dataset_id>>, dataset)>>
            price == At(dataset, 9)
            approve_tx == _build_and_send_tx(data_token.address, "approve",
                              <<dataset_registry.address, price>>,
                              faults[1], receipts[1])
        IN  IF approve_tx.outcome # "ok"
            THEN Fail(op, args, approve_tx, read \o approve_tx.effects)
            ELSE
            LET purchase_tx == _build_and_send_tx(dataset_registry.address,
                                   "purchaseAccess", <<dataset_id, duration>>,
                                   faults[2], receipts[2])
                effects == read \o approve_tx.effects \o purchase_tx.effects
            IN  IF purchase_tx.outcome # "ok"
                THEN Fail(op, args, purchase_tx,
                          effects \o _build_and_send_tx(data_token.address,
                                         "approve",
                                         <<dataset_registry.address, 0>>,
                                         "none", receipts[1]).effects)
                ELSE Returns(op, args, effects,
                             [approve_tx |-> approve_tx.receipt,
                              purchase_tx |-> purchase_tx.receipt])

\* purchase_dataset_access(dataset_id, duration)
purchase_dataset_access(dataset_id, duration, dataset, faults, receipts) ==
    LET op == "purchase_dataset_access"
        args == [dataset_id |-> dataset_id, duration |-> duration]
        dataset_registry == _get_contract("DatasetRegistry")
        data_token == _get_contract("DataToken")
    IN  IF dataset_registry.outcome # "ok"
        THEN Fail(op, args, dataset_registry, << >>)
        ELSE IF data_token.outcome # "ok"
        THEN Fail(op, args, data_token, << >>)
        ELSE
        LET read == <<RemoteCall(dataset_registry.address, "getDataset",
                                 <<dataset_id>>, dataset)>>
            price == At(dataset, 9)
            approve_tx == _build_and_send_tx(data_token.address, "approve",
                              <<dataset_registry.address, price>>,
                              faults[1], receipts[1])
        IN  IF approve_tx.outcome # "ok"
            THEN Fail(op, args, approve_tx, read \o approve_tx.effects)
            ELSE
            LET purchase_tx == _build_and_send_tx(dataset_registry.address,
                                   "purchaseAccess", <<dataset_id, duration>>,
                                   faults[2], receipts[2])
                effects == read \o approve_tx.effects \o purchase_tx.effects
            IN  IF purchase_tx.outcome # "ok"
                THEN Fail(op, args, purchase_tx, effects)
                ELSE Returns(op, args, effects,
                             [approve_tx |-> approve_tx.receipt,
                              purchase_tx |-> purchase_tx.receipt])

\* What the storage network answers to an upload: a content identifier
\* under data.Hash, an empty one, a "data" without Hash, or no "data".
UploadResponses ==
    {[data |-> [Hash |-> "QmA"]], [data |-> [Hash |-> "QmB"]],
     [data |-> [Hash |-> ""]], [data |-> [Name |-> "file"]],
     [error |-> "failed"]}

\* upload_response.get('data', {}).get('Hash')
HashOf(upload_response) ==
    IF "data" \notin DOMAIN upload_response THEN None
    ELSE IF "Hash" \notin DOMAIN upload_response.data THEN None
    ELSE upload_response.data.Hash

\* self.account.key.hex() of an account that is None raises.
NoAccountAttribute ==
    [outcome |-> "AttributeError",
     msg |-> "'NoneType' object has no attribute"]

\* get_jwt_token(self.account.key.hex(), self.lighthouse_api_key)
JwtToken == "jwt:" \o account

GetJwt == [kind |-> "jwt", key |-> account, api_key |-> lighthouse_api_key]

\* The upload of submit_to_task: the file if a path is given, else the
\* text; encrypted, with the access conditions and a token, if asked.
UploadPreferText(data_file_path, data_text, encrypt, access_conditions, response) ==
    [kind |-> "upload",
     what |-> IF ~Falsy(data_text) THEN "text" ELSE "file",
     data |-> IF ~Falsy(data_text) THEN data_text ELSE data_file_path,
     api_key |-> lighthouse_api_key,
     encrypt |-> encrypt,
     access_conditions |-> IF encrypt THEN access_conditions ELSE None,
     auth_token |-> IF encrypt THEN JwtToken ELSE None,
     response |-> response]

Upload(data_file_path, data_text, encrypt, access_conditions, response) ==
    [kind |-> "upload",
     what |-> IF ~Falsy(data_file_path) THEN "file" ELSE "text",
     data |-> IF ~Falsy(data_file_path) THEN data_file_path ELSE data_text,
     api_key |-> lighthouse_api_key,
     encrypt |-> encrypt,
     access_conditions |-> IF encrypt THEN access_conditions ELSE None,
     auth_token |-> IF encrypt THEN JwtToken ELSE None,
     response |-> response]

SubmitArgs ==
    [task_id : {"task1"}, data_file_path : {None, "", "/data.csv"},
     data_text : {None, "text"}, encrypt : BOOLEAN,
     access_conditions : {None, "conditions"}]

\* submit_to_task(task_id, data_file_path, data_text, encrypt,
\*                access_conditions)
submit_to_task(args, upload_response, fault, receipt) ==
    LET op == "submit_to_task"
    IN  IF Falsy(lighthouse_api_key)
        THEN Raised(op, args, "ValueError",
                    "Lighthouse API key not provided", << >>)
        ELSE IF Falsy(args.data_file_path) /\ Falsy(args.data_text)
        THEN Raised(op, args, "ValueError",
                    "Either data_file_path or data_text must be provided",
                    << >>)
        ELSE IF args.encrypt /\ Falsy(args.access_conditions)
        THEN Raised(op, args, "ValueError",
                    "Access conditions must be provided for encrypted submissions",
                    << >>)
        ELSE IF args.encrypt /\ account = None
        THEN Fail(op, args, NoAccountAttribute, << >>)
        ELSE
        LET uploaded ==
                (IF args.encrypt THEN <<GetJwt>> ELSE << >>)
                \o <<Upload(args.data_file_path, args.data_text,
                            args.encrypt, args.access_conditions,
                            upload_response)>>
            cid == HashOf(upload_response)
            task_manager == _get_contract("TaskManager")
        IN  IF Falsy(cid)
            THEN Raised(op, args, "ValueError",
                        "Failed to upload to Lighthouse", uploaded)
            ELSE IF task_manager.outcome # "ok"
            THEN Fail(op, args, task_manager, uploaded)
            ELSE
            LET submit_tx == _build_and_send_tx(task_manager.address,
                                 "submitToTask",
                                 <<args.task_id, cid, args.encrypt>>,
                                 fault, receipt)
                effects == uploaded \o submit_tx.effects
            IN  IF submit_tx.outcome # "ok"
                THEN Fail(op, args, submit_tx, effects)
                ELSE Returns(op, args, effects,
                         [upload_response |-> upload_response,
                          cid |-> cid,
                          submit_tx |-> submit_tx.receipt,
                          submission_id |->
                              ScanLogs(submit_tx.receipt.logs, 1,
                                       task_manager.address,
                                       "SubmissionCreated")])

\* The download of access_dataset, were it always the plain one.
DownloadPlain(data_cid, is_encrypted) ==
    <<[kind |-> "download", cid |-> data_cid]>>

\* The download of access_dataset: decrypt_file for an encrypted dataset,
\* download_file_from_lighthouse otherwise.
Download(data_cid, is_encrypted) ==
    IF is_encrypted
    THEN <<GetJwt,
           [kind |-> "decrypt", cid |-> data_cid, key |-> account,
            api_key |-> lighthouse_api_key, auth_token |-> JwtToken]>>
    ELSE <<[kind |-> "download", cid |-> data_cid]>>

ContentOf(data_cid) == "content of " \o data_cid

\* access_dataset, were it to read the dataset record before it acts on
\* the answer of hasAccess.
access_dataset_reads_first(dataset_id, has_access, dataset, faults, receipts) ==
    LET op == "access_dataset"
        args == [dataset_id |-> dataset_id]
        dataset_registry == _get_contract("DatasetRegistry")
    IN  IF Falsy(lighthouse_api_key)
        THEN Raised(op, args, "ValueError",
                    "Lighthouse API key not provided", << >>)
        ELSE IF dataset_registry.outcome # "ok"
        THEN Fail(op, args, dataset_registry, << >>)
        ELSE IF account = None
        THEN Fail(op, args, NoAccountAttribute, << >>)
        ELSE
        LET check == <<RemoteCall(dataset_registry.address, "hasAccess",
                                  <<dataset_id, AddressOf(account)>>,
                                  has_access)>>
            read == check \o <<RemoteCall(dataset_registry.address,
                                          "getDataset", <<dataset_id>>,
                                          dataset)>>
            data_cid == At(dataset, 5)
            is_encrypted == At(dataset, 6)
            done(effects) ==
                Returns(op, args, effects \o Download(data_cid, is_encrypted),
                        [dataset_id |-> dataset_id, data_cid |-> data_cid,
                         content |-> ContentOf(data_cid)])
        IN  IF ~has_access
            THEN Raised(op, args, "ValueError",
                        "No access to dataset " \o dataset_id, read)
            ELSE IF At(dataset, 8) # 4
            THEN done(read)
            ELSE
            LET data_token == _get_contract("DataToken")
                approve_tx == _build_and_send_tx(data_token.address,
                                  "approve",
                                  <<dataset_registry.address, At(dataset, 9)>>,
                                  faults[1], receipts[1])
                dao_core == _get_contract("DataDAOCore")
                record_tx == _build_and_send_tx(dao_core.address,
                                 "recordDatasetUsage",
                                 <<dataset_id, AddressOf(account)>>,
                                 faults[2], receipts[2])
            IN  IF data_token.outcome # "ok"
                THEN Fail(op, args, data_token, read)
                ELSE IF approve_tx.outcome # "ok"
                THEN Fail(op, args, approve_tx, read \o approve_tx.effects)
                ELSE IF dao_core.outcome # "ok"
                THEN Fail(op, args, dao_core, read \o approve_tx.effects)
                ELSE IF record_tx.outcome # "ok"
                THEN Fail(op, args, record_tx,
                          read \o approve_tx.effects \o record_tx.effects)
                ELSE done(read \o approve_tx.effects \o record_tx.effects)

\* access_dataset(dataset_id)
access_dataset(dataset_id, has_access, dataset, faults, receipts) ==
    LET op == "access_dataset"
        args == [dataset_id |-> dataset_id]
        dataset_registry == _get_contract("DatasetRegistry")
    IN  IF Falsy(lighthouse_api_key)
        THEN Raised(op, args, "ValueError",
                    "Lighthouse API key not provided", << >>)
        ELSE IF dataset_registry.outcome # "ok"
        THEN Fail(op, args, dataset_registry, << >>)
        ELSE IF account = None
        THEN Fail(op, args, NoAccountAttribute, << >>)
        ELSE
        LET check == <<RemoteCall(dataset_registry.address, "hasAccess",
                                  <<dataset_id, AddressOf(account)>>,
                                  has_access)>>
            read == check \o <<RemoteCall(dataset_registry.address,
                                          "getDataset", <<dataset_id>>,
                                          dataset)>>
            data_cid == At(dataset, 5)
            is_encrypted == At(dataset, 6)
            done(effects) ==
                Returns(op, args, effects \o Download(data_cid, is_encrypted),
                        [dataset_id |-> dataset_id, data_cid |-> data_cid,
                         content |-> ContentOf(data_cid)])
        IN  IF ~has_access
            THEN Raised(op, args, "ValueError",
                        "No access to dataset " \o dataset_id, check)
            ELSE IF At(dataset, 8) # 4
            THEN done(read)
            ELSE
            LET data_token == _get_contract("DataToken")
                approve_tx == _build_and_send_tx(data_token.address,
                                  "approve",
                                  <<dataset_registry.address, At(dataset, 9)>>,
                                  faults[1], receipts[1])
                dao_core == _get_contract("DataDAOCore")
                record_tx == _build_and_send_tx(dao_core.address,
                                 "recordDatasetUsage",
                                 <<dataset_id, AddressOf(account)>>,
                                 faults[2], receipts[2])
            IN  IF data_token.outcome # "ok"
                THEN Fail(op, args, data_token, read)
                ELSE IF approve_tx.outcome # "ok"
                THEN Fail(op, args, approve_tx, read \o approve_tx.effects)
                ELSE IF dao_core.outcome # "ok"
                THEN Fail(op, args, dao_core, read \o approve_tx.effects)
                ELSE IF record_tx.outcome # "ok"
                THEN Fail(op, args, record_tx,
                          read \o approve_tx.effects \o record_tx.effects)
                ELSE done(read \o approve_tx.effects \o record_tx.effects)

-----------------------------------------------------------------------------
(* Read-only accessors.                                                    *)

\* A tuple of n distinct values, as a contract call returns it.
TupleOf(n, base) == [i \in 1..n |-> base + i]

Tuples(n) == {TupleOf(n, 0), TupleOf(n, 100)}

AddressArgs == {None, "", "0xB0"}

\* if not address and self.account: address = self.account.address
ResolveAddressPreferAccount(address) ==
    IF account # None THEN AddressOf(account) ELSE address

ResolveAddress(address) ==
    IF Falsy(address) /\ account # None THEN AddressOf(account) ELSE address

\* get_member_info(address)
get_member_info(address, member_info) ==
    LET op == "get_member_info"
        args == [address |-> address]
        resolved == ResolveAddress(address)
        membership_manager == _get_contract("MembershipManager")
    IN  IF Falsy(resolved)
        THEN Raised(op, args, "ValueError", "Address not provided", << >>)
        ELSE IF membership_manager.outcome # "ok"
        THEN Fail(op, args, membership_manager, << >>)
        ELSE Returns(op, args,
                 <<RemoteCall(membership_manager.address, "getMember",
                              <<resolved>>, member_info)>>,
                 [exists |-> At(member_info, 0),
                  tier |-> At(member_info, 1),
                  reputation |-> At(member_info, 2),
                  staked_amount |-> At(member_info, 3),
                  joined_at |-> At(member_info, 4),
                  last_activity_at |-> At(member_info, 5)])

\* is_member(address)
is_member(address, answer) ==
    LET op == "is_member"
        args == [address |-> address]
        resolved == ResolveAddress(address)
        dao_core == _get_contract("DataDAOCore")
    IN  IF Falsy(resolved)
        THEN Raised(op, args, "ValueError", "Address not provided", << >>)
        ELSE IF dao_core.outcome # "ok"
        THEN Fail(op, args, dao_core, << >>)
        ELSE Returns(op, args,
                 <<RemoteCall(dao_core.address, "isMember", <<resolved>>,
                              answer)>>,
                 answer)

\* get_token_balance(address)
get_token_balance(address, balance) ==
    LET op == "get_token_balance"
        args == [address |-> address]
        resolved == ResolveAddress(address)
        data_token == _get_contract("DataToken")
    IN  IF Falsy(resolved)
        THEN Raised(op, args, "ValueError", "Address not provided", << >>)
        ELSE IF data_token.outcome # "ok"
        THEN Fail(op, args, data_token, << >>)
        ELSE Returns(op, args,
                 <<RemoteCall(data_token.address, "balanceOf", <<resolved>>,
                              balance)>>,
                 balance)

\* get_dao_stats()
get_dao_stats(stats) ==
    LET op == "get_dao_stats"
        args == << >>
        dao_core == _get_contract("DataDAOCore")
    IN  IF dao_core.outcome # "ok"
        THEN Fail(op, args, dao_core, << >>)
        ELSE Returns(op, args,
                 <<RemoteCall(dao_core.address, "getDAOStats", << >>, stats)>>,
                 [member_count |-> At(stats, 0),
                  task_count |-> At(stats, 1),
                  dataset_count |-> At(stats, 2),
                  proposal_count |-> At(stats, 3)])

\* get_task(task_id)
get_task_swapped(task_id, task) ==
    LET op == "get_task"
        args == [task_id |-> task_id]
        task_manager == _get_contract("TaskManager")
    IN  IF task_manager.outcome # "ok"
        THEN Fail(op, args, task_manager, << >>)
        ELSE Returns(op, args,
                 <<RemoteCall(task_manager.address, "getTask", <<task_id>>,
                              task)>>,
                 [id |-> At(task, 0),
                  creator |-> At(task, 1),
                  title |-> At(task, 2),
                  description |-> At(task, 3),
                  task_type |-> At(task, 4),
                  status |-> At(task, 5),
                  reward |-> At(task, 7),
                  review_reward |-> At(task, 6),
                  required_submissions |-> At(task, 8),
                  required_validations |-> At(task, 9),
                  deadline |-> At(task, 10),
                  privacy_level |-> At(task, 11),
                  access_conditions_cid |-> At(task, 12),
                  data_cid |-> At(task, 13),
                  instructions_cid |-> At(task, 14),
                  created_at |-> At(task, 15),
                  completed_at |-> At(task, 16),
                  submission_count |-> At(task, 17),
                  validated_submission_count |-> At(task, 18)])

get_task(task_id, task) ==
    LET op == "get_task"
        args == [task_id |-> task_id]
        task_manager == _get_contract("TaskManager")
    IN  IF task_manager.outcome # "ok"
        THEN Fail(op, args, task_manager, << >>)
        ELSE Returns(op, args,
                 <<RemoteCall(task_manager.address, "getTask", <<task_id>>,
                              task)>>,
                 [id |-> At(task, 0),
                  creator |-> At(task, 1),
                  title |-> At(task, 2),
                  description |-> At(task, 3),
                  task_type |-> At(task, 4),
                  status |-> At(task, 5),
                  reward |-> At(task, 6),
                  review_reward |-> At(task, 7),
                  required_submissions |-> At(task, 8),
                  required_validations |-> At(task, 9),
                  deadline |-> At(task, 10),
                  privacy_level |-> At(task, 11),
                  access_conditions_cid |-> At(task, 12),
                  data_cid |-> At(task, 13),
                  instructions_cid |-> At(task, 14),
                  created_at |-> At(task, 15),
                  completed_at |-> At(task, 16),
                  submission_count |-> At(task, 17),
                  validated_submission_count |-> At(task, 18)])

\* get_dataset, were it to label index 8 as the price and index 9 as the
\* access type.
get_dataset_price_at_8(dataset_id, dataset) ==
    LET op == "get_dataset"
        args == [dataset_id |-> dataset_id]
        dataset_registry == _get_contract("DatasetRegistry")
    IN  IF dataset_registry.outcome # "ok"
        THEN Fail(op, args, dataset_registry, << >>)
        ELSE Returns(op, args,
                 <<RemoteCall(dataset_registry.address, "getDataset",
                              <<dataset_id>>, dataset)>>,
                 [id |-> At(dataset, 0),
                  name |-> At(dataset, 1),
                  description |-> At(dataset, 2),
                  owner |-> At(dataset, 3),
                  metadata_cid |-> At(dataset, 4),
                  data_cid |-> At(dataset, 5),
                  is_encrypted |-> At(dataset, 6),
                  access_conditions_cid |-> At(dataset, 7),
                  access_type |-> At(dataset, 9),
                  price |-> At(dataset, 8),
                  created_at |-> At(dataset, 10),
                  has_filecoin_deal |-> At(dataset, 11),
                  deal_id |-> At(dataset, 12),
                  validated |-> At(dataset, 13),
                  usage_count |-> At(dataset, 14),
                  revenue |-> At(dataset, 15)])

\* get_dataset(dataset_id)
get_dataset(dataset_id, dataset) ==
    LET op == "get_dataset"
        args == [dataset_id |-> dataset_id]
        dataset_registry == _get_contract("DatasetRegistry")
    IN  IF dataset_registry.outcome # "ok"
        THEN Fail(op, args, dataset_registry, << >>)
        ELSE Returns(op, args,
                 <<RemoteCall(dataset_registry.address, "getDataset",
                              <<dataset_id>>, dataset)>>,
                 [id |-> At(dataset, 0),
                  name |-> At(dataset, 1),
                  description |-> At(dataset, 2),
                  owner |-> At(dataset, 3),
                  metadata_cid |-> At(dataset, 4),
                  data_cid |-> At(dataset, 5),
                  is_encrypted |-> At(dataset, 6),
                  access_conditions_cid |-> At(dataset, 7),
                  access_type |-> At(dataset, 8),
                  price |-> At(dataset, 9),
                  created_at |-> At(dataset, 10),
                  has_filecoin_deal |-> At(dataset, 11),
                  deal_id |-> At(dataset, 12),
                  validated |-> At(dataset, 13),
                  usage_count |-> At(dataset, 14),
                  revenue |-> At(dataset, 15)])

\* get_proposal(proposal_id)
get_proposal(proposal_id, proposal) ==
    LET op == "get_proposal"
        args == [proposal_id |-> proposal_id]
        governance_module == _get_contract("GovernanceModule")
    IN  IF governance_module.outcome # "ok"
        THEN Fail(op, args, governance_module, << >>)
        ELSE Returns(op, args,
                 <<RemoteCall(governance_module.address, "getProposal",
                              <<proposal_id>>, proposal)>>,
                 [id |-> At(proposal, 0),
                  proposer |-> At(proposal, 1),
                  title |-> At(proposal, 2),
                  description |-> At(proposal, 3),
                  proposal_type |-> At(proposal, 4),
                  status |-> At(proposal, 5),
                  start_time |-> At(proposal, 6),
                  end_time |-> At(proposal, 7),
                  for_votes |-> At(proposal, 8),
                  against_votes |-> At(proposal, 9),
                  abstain_votes |-> At(proposal, 10),
                  executed |-> At(proposal, 11)])

-----------------------------------------------------------------------------
(* The client and its caller.                                              *)

\* set_private_key(private_key)
set_private_key(private_key) ==
    /\ pc = "idle"
    /\ pc' = "returned"
    /\ account' = private_key
    /\ last' = [op |-> "set_private_key", outcome |-> "ok", msg |-> "",
                effects |-> << >>]
    /\ UNCHANGED <<contract_registry_address, lighthouse_api_key, contracts,
                   lookups, w3>>
    /\ UNCHANGED datasetVars

\* set_lighthouse_api_key(api_key)
set_lighthouse_api_key(api_key) ==
    /\ pc = "idle"
    /\ pc' = "returned"
    /\ lighthouse_api_key' = api_key
    /\ last' = [op |-> "set_lighthouse_api_key", outcome |-> "ok",
                msg |-> "", effects |-> << >>]
    /\ UNCHANGED <<account, contract_registry_address, contracts, lookups,
                   w3>>
    /\ UNCHANGED datasetVars

\* A call of an operation, were the operation to drop the account.
CallDropsAccount(record) ==
    /\ pc = "idle"
    /\ pc' = "returned"
    /\ last' = record
    /\ account' = None
    /\ UNCHANGED <<contract_registry_address, lighthouse_api_key, contracts,
                   lookups, w3>>
    /\ UNCHANGED datasetVars

\* The caller calls an operation that leaves the client's fields alone, and
\* gets what it returns or raises.
Call(record) ==
    /\ pc = "idle"
    /\ pc' = "returned"
    /\ last' = record
    /\ UNCHANGED clientVars
    /\ UNCHANGED datasetVars

\* The caller goes on after a call.
CallerContinues ==
    /\ pc = "returned"
    /\ pc' = "idle"
    /\ last' = NoCall
    /\ UNCHANGED clientVars
    /\ UNCHANGED datasetVars

\* The address of the contract whose logs an operation scans.
LogTarget(name) ==
    IF name \in DOMAIN contracts THEN contracts[name] ELSE ZeroAddress

PlainReceipts == Receipts(NoLogs)

\* The receipt of a helper run whose wait did not return is never seen.
Unawaited == [status |-> 1, logs |-> << >>]

Awaited(fault, receipts) == IF fault = "none" THEN receipts ELSE {Unawaited}

\* The receipts of the two helper runs of an operation: the second helper
\* runs only if the first returned.
ReceiptPairs(faults, first, second) ==
    Awaited(faults[1], first)
        \X (IF faults[1] = "none" THEN Awaited(faults[2], second)
            ELSE {Unawaited})

EventReceipts(name, event) == Receipts(ReceiptLogs(LogTarget(name), event))

JoinDao ==
    /\ pc = "idle"
    /\ \E amount \in Amounts, faults \in FaultPairs :
      \E receipts \in ReceiptPairs(faults, PlainReceipts, PlainReceipts) :
        Call(join_dao(amount, faults, receipts))

CreateTask ==
    /\ pc = "idle"
    /\ \E args \in CreateTaskArgs, faults \in FaultPairs :
      \E receipts \in ReceiptPairs(faults, PlainReceipts,
                         EventReceipts("TaskManager", "TaskCreated")) :
        Call(create_task(args, faults, receipts))

SubmitToTask ==
    /\ pc = "idle"
    /\ \E args \in SubmitArgs, upload_response \in UploadResponses,
       fault \in Faults :
      \E receipt \in Awaited(fault, EventReceipts("TaskManager",
                                                  "SubmissionCreated")) :
        Call(submit_to_task(args, upload_response, fault, receipt))

ValidateSubmission ==
    /\ pc = "idle"
    /\ \E approved \in BOOLEAN, fault \in Faults :
      \E receipt \in Awaited(fault, PlainReceipts) :
        Call(validate_submission("sub1", approved, fault, receipt))

CreateDataset ==
    /\ pc = "idle"
    /\ \E args \in CreateDatasetArgs, fault \in Faults :
      \E receipt \in Awaited(fault, EventReceipts("DatasetRegistry",
                                                  "DatasetCreated")) :
        Call(create_dataset(args, fault, receipt))

PurchaseDatasetAccess ==
    /\ pc = "idle"
    /\ \E dataset \in DatasetRecords, faults \in FaultPairs :
      \E receipts \in ReceiptPairs(faults, PlainReceipts, PlainReceipts) :
        Call(purchase_dataset_access("ds1", 0, dataset, faults, receipts))

AccessDataset ==
    /\ pc = "idle"
    /\ \E has_access \in BOOLEAN, dataset \in DatasetRecords,
       faults \in FaultPairs :
      \E receipts \in ReceiptPairs(faults, PlainReceipts, PlainReceipts) :
        Call(access_dataset("ds1", has_access, dataset, faults, receipts))

CreateProposal ==
    /\ pc = "idle"
    /\ \E args \in CreateProposalArgs, fault \in Faults :
      \E receipt \in Awaited(fault, EventReceipts("GovernanceModule",
                                                  "ProposalCreated")) :
        Call(create_proposal(args, fault, receipt))

VoteOnProposal ==
    /\ pc = "idle"
    /\ \E vote_type \in 1..3, fault \in Faults :
      \E receipt \in Awaited(fault, PlainReceipts) :
        Call(vote_on_proposal("prop1", vote_type, fault, receipt))

ExecuteProposal ==
    /\ pc = "idle"
    /\ \E fault \in Faults :
      \E receipt \in Awaited(fault, PlainReceipts) :
        Call(execute_proposal("prop1", fault, receipt))

ClaimFromFaucet ==
    /\ pc = "idle"
    /\ \E fault \in Faults :
      \E receipt \in Awaited(fault, PlainReceipts) :
        Call(claim_from_faucet(fault, receipt))

GetMemberInfo ==
    /\ pc = "idle"
    /\ \E address \in AddressArgs, member_info \in Tuples(6) :
        Call(get_member_info(address, member_info))

IsMember ==
    /\ pc = "idle"
    /\ \E address \in AddressArgs, answer \in BOOLEAN :
        Call(is_member(address, answer))

GetTokenBalance ==
    /\ pc = "idle"
    /\ \E address \in AddressArgs, balance \in Amounts :
        Call(get_token_balance(address, balance))

GetDaoStats ==
    /\ pc = "idle"
    /\ \E stats \in Tuples(4) : Call(get_dao_stats(stats))

GetTask ==
    /\ pc = "idle"
    /\ \E task \in Tuples(19) : Call(get_task("task1", task))

GetDataset ==
    /\ pc = "idle"
    /\ \/ \E dataset \in Tuples(16) : Call(get_dataset("ds1", dataset))
       \/ \E dataset \in DatasetRecords : Call(get_dataset("ds1", dataset))

GetProposal ==
    /\ pc = "idle"
    /\ \E proposal \in Tuples(12) : Call(get_proposal("prop1", proposal))

SetPrivateKey == \E private_key \in PrivateKeys : set_private_key(private_key)

SetLighthouseApiKey ==
    \E api_key \in {None, "", "lighthouse-key"} :
        set_lighthouse_api_key(api_key)

\* The registry resolves every name.
AllResolve == [n \in NameSet |-> "ok"]

\* A client built without a registry, or with a registry that resolves
\* every name or every name but one.
Init ==
    /\ \E private_key \in {None, "k1"}, api_key \in {None, "lighthouse-key"} :
          \/ Constructed(private_key, None, api_key, AllResolve)
          \/ Constructed(private_key, "0xR1", api_key, AllResolve)
          \/ \E n \in NameSet :
                Constructed(private_key, "0xR1", api_key,
                            [AllResolve EXCEPT ![n] = "zero"])
    /\ pc = "idle"
    /\ last = ConstructorCall
    /\ DatasetIdle

Next ==
    \/ SetPrivateKey
    \/ SetLighthouseApiKey
    \/ JoinDao
    \/ GetMemberInfo
    \/ IsMember
    \/ CreateTask
    \/ SubmitToTask
    \/ ValidateSubmission
    \/ CreateDataset
    \/ PurchaseDatasetAccess
    \/ AccessDataset
    \/ CreateProposal
    \/ VoteOnProposal
    \/ ExecuteProposal
    \/ GetDaoStats
    \/ GetTask
    \/ GetDataset
    \/ GetProposal
    \/ ClaimFromFaucet
    \/ GetTokenBalance
    \/ CallerContinues

Spec == Init /\ [][Next]_vars

-----------------------------------------------------------------------------
(* Properties of the client's operations.                                  *)

\* The positions in a call's effects that hold an effect of one of "kinds".
EffectsOf(kinds) ==
    {i \in DOMAIN last.effects : last.effects[i].kind \in kinds}

\* The keys of the mappings the accessors return, in the order of the
\* fields of the tuple the contract returns.
MemberKeys ==
    <<"exists", "tier", "reputation", "staked_amount", "joined_at",
      "last_activity_at">>

StatsKeys == <<"member_count", "task_count", "dataset_count", "proposal_count">>

TaskKeys ==
    <<"id", "creator", "title", "description", "task_type", "status",
      "reward", "review_reward", "required_submissions",
      "required_validations", "deadline", "privacy_level",
      "access_conditions_cid", "data_cid", "instructions_cid", "created_at",
      "completed_at", "submission_count", "validated_submission_count">>

DatasetKeys ==
    <<"id", "name", "description", "owner", "metadata_cid", "data_cid",
      "is_encrypted", "access_conditions_cid", "access_type", "price",
      "created_at", "has_filecoin_deal", "deal_id", "validated",
      "usage_count", "revenue">>

ProposalKeys ==
    <<"id", "proposer", "title", "description", "proposal_type", "status",
      "start_time", "end_time", "for_votes", "against_votes",
      "abstain_votes", "executed">>

AccessorKeys ==
    [get_member_info |-> MemberKeys, get_dao_stats |-> StatsKeys,
     get_task |-> TaskKeys, get_dataset |-> DatasetKeys,
     get_proposal |-> ProposalKeys]

\* C1: an accessor that returns has made one remote read, and the mapping
\* it returns has exactly the accessor's keys, as many as the tuple has
\* elements, the i-th key holding the i-th element of the tuple read.
C1_AccessorMapping ==
    (pc = "returned" /\ last.op \in DOMAIN AccessorKeys
                     /\ last.outcome = "ok") =>
        LET keys == AccessorKeys[last.op]
        IN  /\ Len(last.effects) = 1
            /\ last.effects[1].kind = "call"
            /\ Len(last.effects[1].returned) = Len(keys)
            /\ DOMAIN last.result = {keys[i] : i \in 1..Len(keys)}
            /\ Cardinality(DOMAIN last.result) = Len(keys)
            /\ \A i \in 1..Len(keys) :
                   last.result[keys[i]] = last.effects[1].returned[i]

\* get_task has returned the mapping of a task whose tuple holds distinct
\* values, the reward (index 6) and the review reward (index 7) among them.
C1_Witness ==
    /\ pc = "returned"
    /\ last.op = "get_task"
    /\ last.outcome = "ok"
    /\ last.result.reward = 107
    /\ last.result.review_reward = 108
    /\ last.result.validated_submission_count = 119

\* The operations that send transactions.
KeyOps ==
    {"join_dao", "create_task", "submit_to_task", "validate_submission",
     "create_dataset", "purchase_dataset_access", "access_dataset",
     "create_proposal", "vote_on_proposal", "execute_proposal",
     "claim_from_faucet"}

\* What a call of a transaction-sending operation needs besides the signing
\* key: every contract resolved, the storage key configured, data to submit
\* and, for an encrypted submission, access conditions; and a storage
\* service that answered an upload with a content identifier.
OtherPreconditions ==
    /\ NameSet \subseteq DOMAIN contracts
    /\ last.op \in {"submit_to_task", "access_dataset"} =>
           ~Falsy(lighthouse_api_key)
    /\ last.op = "submit_to_task" =>
           /\ ~(Falsy(last.args.data_file_path) /\ Falsy(last.args.data_text))
           /\ last.args.encrypt => ~Falsy(last.args.access_conditions)
           /\ \A i \in EffectsOf({"upload"}) :
                  ~Falsy(HashOf(last.effects[i].response))

\* C2: a transaction-sending operation called on a client without an
\* account, its other preconditions satisfied, raises
\* ValueError("Private key not provided") and has sent no transaction.
C2_PrivateKeyRequired ==
    (pc = "returned" /\ last.op \in KeyOps /\ account = None
                     /\ OtherPreconditions) =>
        /\ last.outcome = "ValueError"
        /\ last.msg = "Private key not provided"
        /\ EffectsOf({"tx"}) = {}

\* The messages of _get_contract for a name that is not in the table.
NotInitialized == {"Contract " \o n \o " not initialized" : n \in NameSet}

\* C3: a call that raised ValueError("Contract <name> not initialized") had
\* sent no transaction and uploaded nothing when it raised, and <name> is
\* not in the contract table.
C3_MissingContractRaisesFirst ==
    (pc = "returned" /\ last.outcome = "ValueError"
                     /\ last.msg \in NotInitialized) =>
        /\ EffectsOf({"tx", "upload"}) = {}
        /\ \E n \in NameSet \ DOMAIN contracts :
               last.msg = "Contract " \o n \o " not initialized"

\* The messages of the precondition checks of submit_to_task and
\* access_dataset.
PreconditionMessages ==
    {"Lighthouse API key not provided", "Private key not provided",
     "Either data_file_path or data_text must be provided",
     "Access conditions must be provided for encrypted submissions"}

\* C4: a call of submit_to_task or access_dataset that raised for an absent
\* configuration or argument had uploaded and downloaded nothing and sent
\* no transaction when it raised.
C4_PreconditionsRaiseImmediately ==
    (pc = "returned" /\ last.op \in {"submit_to_task", "access_dataset"}
                     /\ last.outcome = "ValueError"
                     /\ last.msg \in PreconditionMessages) =>
        EffectsOf({"upload", "download", "decrypt", "tx"}) = {}

\* The contract each address reader asks.
ReaderContract ==
    [get_member_info |-> "MembershipManager", is_member |-> "DataDAOCore",
     get_token_balance |-> "DataToken"]

\* C9: get_member_info, is_member and get_token_balance ask about the
\* address argument if one is given and about the account's address
\* otherwise; with neither they raise ValueError("Address not provided")
\* having looked up no contract and read nothing, also when the contract
\* they would ask is missing from the table.
C9_AddressResolution ==
    (pc = "returned" /\ last.op \in DOMAIN ReaderContract) =>
        LET address == last.args.address
            neither == Falsy(address) /\ account = None
        IN  /\ neither =>
                   /\ last.outcome = "ValueError"
                   /\ last.msg = "Address not provided"
                   /\ last.effects = << >>
            /\ last.msg = "Address not provided" => neither
            /\ (~neither /\ ReaderContract[last.op] \in DOMAIN contracts) =>
                   /\ last.outcome = "ok"
                   /\ Len(last.effects) = 1
                   /\ last.effects[1].to = contracts[ReaderContract[last.op]]
                   /\ last.effects[1].args =
                          <<IF ~Falsy(address) THEN address
                            ELSE AddressOf(account)>>
            /\ (~neither /\ ReaderContract[last.op] \notin DOMAIN contracts) =>
                   /\ last.outcome = "ValueError"
                   /\ last.msg \in NotInitialized

\* get_member_info called without an address on a client that has no
\* account and no MembershipManager.
C9_Witness ==
    /\ pc = "returned"
    /\ last.op = "get_member_info"
    /\ last.args.address = None
    /\ account = None
    /\ "MembershipManager" \notin DOMAIN contracts
    /\ last.msg = "Address not provided"

\* C10: a submit_to_task that returned made exactly one upload, of the file
\* if a path was given and of the text otherwise, encrypted iff encrypt;
\* it sent one transaction, submitToTask with the content identifier of the
\* upload response and the encrypt argument, and returned that identifier
\* as 'cid'. A call whose upload response carries no identifier raised
\* ValueError and sent no transaction.
C10_SubmitUploadsOnce ==
    (pc = "returned" /\ last.op = "submit_to_task") =>
        LET args == last.args
            uploads == EffectsOf({"upload"})
            txs == EffectsOf({"tx"})
            hash(r) == IF "data" \in DOMAIN r /\ "Hash" \in DOMAIN r.data
                       THEN r.data.Hash ELSE ""
        IN  /\ Cardinality(uploads) <= 1
            /\ Cardinality(txs) <= 1
            /\ txs # {} => uploads # {}
            /\ \A i \in uploads :
                   LET u == last.effects[i]
                   IN  /\ u.what = IF ~Falsy(args.data_file_path)
                                   THEN "file" ELSE "text"
                       /\ u.data = IF ~Falsy(args.data_file_path)
                                   THEN args.data_file_path
                                   ELSE args.data_text
                       /\ u.encrypt = args.encrypt
                       /\ hash(u.response) = "" =>
                              /\ last.outcome = "ValueError"
                              /\ txs = {}
                       /\ \A j \in txs :
                              /\ i < j
                              /\ last.effects[j].fn = "submitToTask"
                              /\ last.effects[j].args =
                                     <<args.task_id, hash(u.response),
                                       args.encrypt>>
                       /\ last.outcome = "ok" =>
                              /\ hash(u.response) # ""
                              /\ last.result.cid = hash(u.response)
            /\ last.outcome = "ok" =>
                   /\ Cardinality(uploads) = 1
                   /\ Cardinality(txs) = 1

\* A submission of both a file and a text, encrypted, has returned.
C10_Witness ==
    /\ pc = "returned"
    /\ last.op = "submit_to_task"
    /\ last.outcome = "ok"
    /\ last.args.data_file_path = "/data.csv"
    /\ last.args.data_text = "text"
    /\ last.args.encrypt
    /\ last.result.cid = "QmB"

\* C11: the first remote action of access_dataset is the registry's
\* hasAccess(dataset_id, caller address); a call whose check answered false
\* raised ValueError("No access to dataset <id>") having done nothing else,
\* and a call that returned content had the answer true.
C11_AccessCheckedFirst ==
    (pc = "returned" /\ last.op = "access_dataset") =>
        /\ last.effects # << >> =>
               /\ last.effects[1].kind = "call"
               /\ last.effects[1].fn = "hasAccess"
               /\ last.effects[1].to = contracts["DatasetRegistry"]
               /\ last.effects[1].args =
                      <<last.args.dataset_id, AddressOf(account)>>
               /\ ~last.effects[1].returned =>
                      /\ last.outcome = "ValueError"
                      /\ last.msg = "No access to dataset "
                                        \o last.args.dataset_id
                      /\ Len(last.effects) = 1
        /\ last.outcome = "ok" =>
               /\ last.effects # << >>
               /\ last.effects[1].returned
        /\ (last.outcome = "ValueError"
                /\ last.msg = "No access to dataset " \o last.args.dataset_id) =>
               /\ Len(last.effects) = 1
               /\ ~last.effects[1].returned

\* access_dataset was refused on a client that has an account, a storage
\* key and a dataset registry.
C11_Witness ==
    /\ pc = "returned"
    /\ last.op = "access_dataset"
    /\ account # None
    /\ last.msg = "No access to dataset ds1"
    /\ Len(last.effects) = 1
    /\ ~last.effects[1].returned

\* The operations that scan the receipt of their action transaction: the
\* key of the receipt and of the identifier in what they return, the
\* contract that emits the event, and the event.
ScanOps ==
    [create_task |->
         [tx |-> "create_tx", id |-> "task_id",
          contract |-> "TaskManager", event |-> "TaskCreated"],
     submit_to_task |->
         [tx |-> "submit_tx", id |-> "submission_id",
          contract |-> "TaskManager", event |-> "SubmissionCreated"],
     create_dataset |->
         [tx |-> "create_tx", id |-> "dataset_id",
          contract |-> "DatasetRegistry", event |-> "DatasetCreated"],
     create_proposal |->
         [tx |-> "propose_tx", id |-> "proposal_id",
          contract |-> "GovernanceModule", event |-> "ProposalCreated"]]

\* The positions of the logs of the latest call's action receipt that the
\* target contract emitted, whatever the case of the address, and that are
\* the expected event.
QualifyingLogs ==
    LET scan == ScanOps[last.op]
        logs == last.result[scan.tx].logs
    IN  {i \in DOMAIN logs :
            /\ Lower(logs[i].address) = Lower(contracts[scan.contract])
            /\ logs[i].event = scan.event}

\* C12: create_task, submit_to_task, create_dataset and create_proposal
\* return the identifier of the first log of the action receipt that the
\* target contract emitted and that is the expected event, and None, still
\* returning, exactly when the receipt has no such log.
C12_FirstQualifyingLog ==
    (pc = "returned" /\ last.op \in DOMAIN ScanOps /\ last.outcome = "ok") =>
        LET scan == ScanOps[last.op]
            logs == last.result[scan.tx].logs
            id == last.result[scan.id]
        IN  /\ (QualifyingLogs = {}) <=> (id = None)
            /\ \A i \in QualifyingLogs :
                   (\A j \in QualifyingLogs : i <= j) => id = logs[i].id

\* create_task has returned the identifier of the second of three logs:
\* the first is of the task manager but not the event, the third is the
\* event again.
C12_Witness ==
    /\ pc = "returned"
    /\ last.op = "create_task"
    /\ last.outcome = "ok"
    /\ Len(last.result.create_tx.logs) = 3
    /\ QualifyingLogs = {2, 3}
    /\ last.result.task_id = "id6"

\* The operations that approve a token transfer and then act: the function
\* of the action transaction and the contract it is sent to.
ApproveOps ==
    [join_dao |-> [action |-> "joinDAO", contract |-> "MembershipManager"],
     create_task |-> [action |-> "createTask", contract |-> "TaskManager"],
     purchase_dataset_access |->
         [action |-> "purchaseAccess", contract |-> "DatasetRegistry"]]

\* The positions of the latest call's transactions of function fn.
TxsOf(fn) == {i \in EffectsOf({"tx"}) : last.effects[i].fn = fn}

\* The amount the latest call has to approve: the stake, the total reward
\* of the task, or the price in the dataset record the call has read.
AmountToApprove ==
    CASE last.op = "join_dao" -> last.args.amount
      [] last.op = "create_task" ->
             last.args.reward * last.args.required_submissions
             + last.args.review_reward * last.args.required_submissions
                 * last.args.required_validations
      [] last.op = "purchase_dataset_access" -> last.effects[1].returned[10]

\* C13: in join_dao, create_task and purchase_dataset_access the action
\* transaction is sent only after the one approval was sent and its receipt
\* obtained; the approval is sent to the token, for the action contract as
\* spender and the amount due, which purchase_dataset_access reads from the
\* dataset record just before.
C13_ApprovalBeforeAction ==
    (pc = "returned" /\ last.op \in DOMAIN ApproveOps) =>
        LET act == ApproveOps[last.op]
            e == last.effects
            approvals == TxsOf("approve")
            actions == TxsOf(act.action)
        IN  /\ EffectsOf({"tx"}) = approvals \cup actions
            /\ Cardinality(approvals) <= 1
            /\ Cardinality(actions) <= 1
            /\ \A i \in approvals :
                   /\ e[i].to = contracts["DataToken"]
                   /\ e[i].args = <<contracts[act.contract], AmountToApprove>>
                   /\ last.op = "purchase_dataset_access" =>
                          /\ i = 2
                          /\ e[1].kind = "call"
                          /\ e[1].fn = "getDataset"
                          /\ e[1].args = <<last.args.dataset_id>>
            /\ \A j \in actions :
                   /\ e[j].to = contracts[act.contract]
                   /\ \E i \in approvals :
                          /\ i + 1 < j
                          /\ e[i + 1].kind = "receipt"
                          /\ e[i + 1].of = "approve"
            /\ last.outcome = "ok" => (approvals # {} /\ actions # {})

\* create_task has sent its createTask transaction, after approving the
\* total reward of a task with two submissions of two validations each.
C13_Witness ==
    /\ pc = "returned"
    /\ last.op = "create_task"
    /\ last.args.reward = 1
    /\ last.args.review_reward = 2
    /\ last.args.required_submissions = 2
    /\ last.args.required_validations = 2
    /\ TxsOf("createTask") = {3}
    /\ last.effects[1].args[2] = 10

\* The most runs of the transaction helper an operation makes.
HelperCalls ==
    [op \in KeyOps |->
        IF op \in {"join_dao", "create_task", "purchase_dataset_access",
                   "access_dataset"}
        THEN 2 ELSE 1]

\* C14: an operation sends at most one transaction per run of the helper
\* it makes, no transaction twice, and awaits the receipt of each before it
\* does anything else; a transaction whose receipt was not obtained is the
\* last thing the operation did and its failure is what the caller gets,
\* and an operation that failed before sending did nothing afterwards.
C14_NoRetries ==
    (pc = "returned" /\ last.op \in KeyOps) =>
        LET e == last.effects
            txs == EffectsOf({"tx"})
        IN  /\ Cardinality(txs) <= HelperCalls[last.op]
            /\ Cardinality(EffectsOf({"receipt"})) <= Cardinality(txs)
            /\ \A i, j \in txs : i # j => e[i].fn # e[j].fn
            /\ \A i \in txs :
                   IF i < Len(e)
                   THEN e[i + 1].kind = "receipt" /\ e[i + 1].of = e[i].fn
                   ELSE last.outcome = "TimeExhausted"
            /\ last.outcome \in {"RpcError", "SigningError"} =>
                   (e = << >> \/ e[Len(e)].kind # "tx")
            /\ last.outcome = "TimeExhausted" =>
                   (e # << >> /\ e[Len(e)].kind = "tx")

\* join_dao has failed waiting for the receipt of its second transaction.
C14_Witness ==
    /\ pc = "returned"
    /\ last.op = "join_dao"
    /\ last.outcome = "TimeExhausted"
    /\ Len(last.effects) = 3
    /\ last.effects[3].kind = "tx"
    /\ last.effects[3].fn = "joinDAO"

\* C16: access_dataset sends transactions only for a dataset whose access
\* type is 4: a call that returned sent exactly approve(registry, price)
\* and then recordDatasetUsage(dataset_id, caller), and had the receipts of
\* both before it downloaded; for any other access type it sent none. What
\* it downloads is the record's data content identifier, by the decrypt
\* path iff the record's encryption flag is set.
C16_UsageRecordedForPayPerUse ==
    (pc = "returned" /\ last.op = "access_dataset" /\ Len(last.effects) >= 2) =>
        LET e == last.effects
            record == e[2].returned
            txs == EffectsOf({"tx"})
            downloads == EffectsOf({"download", "decrypt"})
        IN  /\ e[2].kind = "call" /\ e[2].fn = "getDataset"
            /\ record[9] # 4 => txs = {}
            /\ txs \subseteq TxsOf("approve") \cup TxsOf("recordDatasetUsage")
            /\ \A i \in TxsOf("approve") :
                   /\ i = 3
                   /\ e[i].to = contracts["DataToken"]
                   /\ e[i].args = <<contracts["DatasetRegistry"], record[10]>>
            /\ \A i \in TxsOf("recordDatasetUsage") :
                   /\ i = 5
                   /\ TxsOf("approve") = {3}
                   /\ e[4].kind = "receipt"
                   /\ e[i].to = contracts["DataDAOCore"]
                   /\ e[i].args = <<last.args.dataset_id, AddressOf(account)>>
            /\ \A d \in downloads :
                   /\ record[9] = 4 =>
                          /\ TxsOf("recordDatasetUsage") = {5}
                          /\ e[6].kind = "receipt"
                          /\ d > 6
                   /\ e[d].kind = IF record[7] THEN "decrypt" ELSE "download"
                   /\ e[d].cid = record[6]
            /\ last.outcome = "ok" =>
                   /\ Cardinality(downloads) = 1
                   /\ Cardinality(txs) = IF record[9] = 4 THEN 2 ELSE 0
                   /\ last.result.data_cid = record[6]

\* access_dataset has returned the content of an encrypted pay-per-use
\* dataset.
C16_Witness ==
    /\ pc = "returned"
    /\ last.op = "access_dataset"
    /\ last.outcome = "ok"
    /\ Len(last.effects) = 8
    /\ last.effects[2].returned[9] = 4
    /\ last.effects[2].returned[7]
    /\ last.effects[8].kind = "decrypt"

\* The action transaction of the operations that approve first.
ActionOf ==
    [join_dao |-> "joinDAO", create_task |-> "createTask",
     purchase_dataset_access |-> "purchaseAccess",
     access_dataset |-> "recordDatasetUsage"]

\* The latest call's approval was confirmed (its receipt obtained, with
\* status 1) and its action transaction was not.
AllowanceWithoutAction ==
    /\ pc = "returned"
    /\ last.op \in DOMAIN ActionOf
    /\ \E i \in TxsOf("approve") :
           /\ i < Len(last.effects)
           /\ last.effects[i + 1].kind = "receipt"
           /\ last.effects[i + 1].receipt.status = 1
    /\ \A j \in TxsOf(ActionOf[last.op]) : j = Len(last.effects)

\* C17: when the approval of join_dao, create_task, purchase_dataset_access
\* or access_dataset was confirmed and the action was not, the call raised,
\* returned no approval receipt, and sent no transaction but the approval
\* and, at most, the action that failed: nothing resets the allowance.
C17_NoCompensation ==
    AllowanceWithoutAction =>
        /\ last.outcome # "ok"
        /\ last.result = None
        /\ Cardinality(TxsOf("approve")) = 1
        /\ EffectsOf({"tx"}) =
               TxsOf("approve") \cup TxsOf(ActionOf[last.op])
        /\ Cardinality(TxsOf(ActionOf[last.op])) <= 1
        /\ \A i \in TxsOf("approve") : last.effects[i].args[2] > 0

\* purchase_dataset_access has failed sending its purchase after its
\* approval was confirmed.
C17_Witness ==
    /\ AllowanceWithoutAction
    /\ last.op = "purchase_dataset_access"
    /\ last.outcome = "RpcError"
    /\ last.msg = "send"
    /\ Len(last.effects) = 3

\* The constructor and the setters.
Configurers ==
    {"__init__", "set_private_key", "set_contract_registry",
     "set_lighthouse_api_key"}

\* The read-only accessors.
Accessors ==
    {"get_member_info", "is_member", "get_dao_stats", "get_task",
     "get_dataset", "get_proposal", "get_token_balance"}

\* C19: the account, the registry address, the storage key and the contract
\* table change only in a step of the constructor or of a setter; every
\* other operation, returning or raising, leaves them as they were, and a
\* read-only accessor sends no transaction.
C19_ConfigurationFrame ==
    [][/\ <<account, contract_registry_address, lighthouse_api_key,
            contracts>>' #
          <<account, contract_registry_address, lighthouse_api_key,
            contracts>> => last'.op \in Configurers
       /\ (pc' = "returned" /\ last'.op \in Accessors) =>
              \A i \in DOMAIN last'.effects : last'.effects[i].kind # "tx"]_vars

\* create_dataset has raised on a client whose account and storage key were
\* set by the setters.
C19_Witness ==
    /\ pc = "returned"
    /\ last.op = "create_dataset"
    /\ last.outcome = "RpcError"
    /\ account = "k2"
    /\ lighthouse_api_key = ""

\* The mapping get_dataset returns for the dataset record the latest call
\* of purchase_dataset_access (its first effect) or access_dataset (its
\* second) has read.
Labelled ==
    LET read == IF last.op = "access_dataset" THEN 2 ELSE 1
    IN  get_dataset(last.args.dataset_id,
                    last.effects[read].returned).result

\* C20: what purchase_dataset_access and access_dataset take from the
\* dataset record by position is what get_dataset labels: the amount
\* approved is 'price', the access type compared with 4 is 'access_type',
\* the identifier downloaded is 'data_cid' and the decrypt path is taken
\* iff 'is_encrypted'.
C20_IndicesAgreeWithLabels ==
    /\ (pc = "returned" /\ last.op = "purchase_dataset_access"
                        /\ last.effects # << >>) =>
           \A i \in TxsOf("approve") :
               last.effects[i].args[2] = Labelled.price
    /\ (pc = "returned" /\ last.op = "access_dataset"
                        /\ Len(last.effects) >= 2) =>
           /\ \A i \in TxsOf("approve") :
                  /\ last.effects[i].args[2] = Labelled.price
                  /\ Labelled.access_type = 4
           /\ last.outcome = "ok" =>
                  (Labelled.access_type = 4 <=> EffectsOf({"tx"}) # {})
           /\ \A d \in EffectsOf({"download", "decrypt"}) :
                  /\ last.effects[d].cid = Labelled.data_cid
                  /\ (last.effects[d].kind = "decrypt") <=>
                         Labelled.is_encrypted
           /\ last.outcome = "ok" =>
                  last.result.data_cid = Labelled.data_cid

\* access_dataset has returned after approving the price, 2, of a
\* pay-per-use dataset.
C20_Witness ==
    /\ pc = "returned"
    /\ last.op = "access_dataset"
    /\ last.outcome = "ok"
    /\ TxsOf("approve") = {3}
    /\ last.effects[3].args[2] = 2
    /\ Labelled.price = 2
    /\ Labelled.access_type = 4

-----------------------------------------------------------------------------
(* The Dataset value object.                                               *)

Max(a, b) == IF a >= b THEN a ELSE b
Min(a, b) == IF a <= b THEN a ELSE b

\* The i-th sample (from 0) of the datasets considered: features and labels
\* are distinct values, so that a returned value names the index it is from.
FeatureAt(i) == 100 + i
LabelAt(i) == 200 + i

\* Dataset(id, name, features, labels, metadata) with n features, m labels.
NewDataset(n, m) ==
    [features |-> [i \in 1..n |-> FeatureAt(i - 1)],
     labels |-> [i \in 1..m |-> LabelAt(i - 1)]]

Datasets ==
    {NewDataset(n, m) : n \in 0..MaxSamples, m \in 0..(MaxSamples + 1)}

\* train_ratio as the fraction <<p, q>>, q > 0.
Ratios == {<<p, RatioDen>> : p \in (0 - RatioDen)..(2 * RatioDen)}

\* __len__: the number of features.
__len__(ds) == Len(ds.features)

\* np.arange(n): the indices 0 .. n-1.
Arange(n) == [i \in 1..n |-> i - 1]

\* One draw of the global generator: its next state.
RngAdvance(s) == (s + 1) % RngStates

\* np.random.shuffle(x): for i from Len(x)-1 down to 1, draw j in 0..i and
\* swap x[i] and x[j] (indices from 0).  "i" is the current index.
RECURSIVE ShuffleFrom(_, _, _)
ShuffleFrom(i, x, s) ==
    IF i < 1 THEN [indices |-> x, state |-> s]
    ELSE LET s1 == RngAdvance(s)
             j == s1 % (i + 1)
             swapped == [k \in 1..Len(x) |->
                            IF k = i + 1 THEN x[j + 1]
                            ELSE IF k = j + 1 THEN x[i + 1] ELSE x[k]]
         IN  ShuffleFrom(i - 1, swapped, s1)

Shuffle(x, s) == ShuffleFrom(Len(x) - 1, x, s)

\* int(n_samples * train_ratio): the product, truncated towards zero.
PyIntRound(n, ratio) ==
    LET x == n * ratio[1]
        q == ratio[2]
    IN  (2 * x + q) \div (2 * q)

PyInt(n, ratio) ==
    LET x == n * ratio[1]
        q == ratio[2]
    IN  IF x >= 0 THEN x \div q ELSE 0 - ((0 - x) \div q)

\* A slice bound k of a sequence of length n, as python reads it.
SliceBound(k, n) == IF k < 0 THEN Max(k + n, 0) ELSE Min(k, n)

\* x[:k]
SliceTo(x, k) == SubSeq(x, 1, SliceBound(k, Len(x)))

\* x[k:]
SliceFromNoWrap(x, k) == SubSeq(x, Max(k, 0) + 1, Len(x))

SliceFrom(x, k) == SubSeq(x, SliceBound(k, Len(x)) + 1, Len(x))

\* indices = np.arange(n_samples); if shuffle: np.random.shuffle(indices)
SplitIndicesAlwaysShuffle(n, shuffle, s) == Shuffle(Arange(n), s)

SplitIndices(n, shuffle, s) ==
    IF shuffle THEN Shuffle(Arange(n), s)
    ELSE [indices |-> Arange(n), state |-> s]

\* [values[i] for i in indices], values[i] being the i-th from 0.
Gather(values, indices) == [k \in 1..Len(indices) |-> values[indices[k] + 1]]

InRange(values, indices) ==
    \A k \in 1..Len(indices) : indices[k] < Len(values)

\* Dataset.split(train_ratio, shuffle) with the generator in state s.
split(ds, train_ratio, shuffle, s) ==
    LET n_samples == __len__(ds)
        sh == SplitIndices(n_samples, shuffle, s)
        split_idx == PyInt(n_samples, train_ratio)
        train_indices == SliceTo(sh.indices, split_idx)
        test_indices == SliceFrom(sh.indices, split_idx)
        call == [op |-> "split", train_ratio |-> train_ratio,
                 shuffle |-> shuffle, rng_before |-> s, rng_after |-> sh.state]
    IN  IF InRange(ds.labels, train_indices) /\ InRange(ds.labels, test_indices)
        THEN call @@
             [outcome |-> "ok",
              train_features |-> Gather(ds.features, train_indices),
              train_labels |-> Gather(ds.labels, train_indices),
              test_features |-> Gather(ds.features, test_indices),
              test_labels |-> Gather(ds.labels, test_indices)]
        ELSE call @@ [outcome |-> "IndexError"]

\* The caller calls split(train_ratio, shuffle) on its Dataset.
Split ==
    /\ last' = split(samples, split_args.train_ratio, split_args.shuffle,
                         np_random)
    /\ np_random' = last'.rng_after
    /\ prev_split' = last
    /\ UNCHANGED <<samples, split_args, pc>>
    /\ UNCHANGED clientVars

\* The caller calls np.random.seed(seed).
Seed(seed) ==
    /\ np_random' = seed % RngStates
    /\ UNCHANGED <<samples, split_args, prev_split, pc, last>>
    /\ UNCHANGED clientVars

NoClient == Constructed(None, None, None, [n \in NameSet |-> "ok"])

InitSplit ==
    /\ NoClient
    /\ pc = "idle"
    /\ last = NoCall
    /\ prev_split = NoCall
    /\ np_random \in 0..(RngStates - 1)
    /\ samples \in Datasets
    /\ split_args \in [train_ratio : Ratios, shuffle : BOOLEAN]

NextSplit ==
    \/ Split
    \/ \E seed \in 0..(RngStates - 1) : Seed(seed)

SpecSplit == InitSplit /\ [][NextSplit]_vars

-----------------------------------------------------------------------------
(* Claims about Dataset.split.                                             *)

ParallelSamples == Len(samples.features) = Len(samples.labels)

\* How many times v occurs in the sequence x.
Occurrences(x, v) == Cardinality({k \in 1..Len(x) : x[k] = v})

\* The index (from 0) of the sample a returned feature or label is from.
FeatureIndex(v) == v - FeatureAt(0)
LabelIndex(v) == v - LabelAt(0)

\* C5: for parallel features and labels of length n, split returns, for any
\* train_ratio (also outside [0,1]) and either shuffle setting, partitions
\* whose sizes sum to n, every original index being used in exactly one of
\* the train and test partitions.
C5_SplitPartitions ==
    (last.op = "split" /\ ParallelSamples) =>
        LET n == Len(samples.features)
        IN  /\ last.outcome = "ok"
            /\ Len(last.train_features) + Len(last.test_features) = n
            /\ Len(last.train_labels) + Len(last.test_labels) = n
            /\ \A i \in 0..(n - 1) :
                   /\ Occurrences(last.train_features \o last.test_features,
                                  FeatureAt(i)) = 1
                   /\ Occurrences(last.train_labels \o last.test_labels,
                                  LabelAt(i)) = 1

\* A shuffled split with a negative train_ratio that left samples on both
\* sides.
C5_Witness ==
    /\ last.op = "split" /\ ParallelSamples
    /\ last.train_ratio[1] < 0
    /\ last.shuffle
    /\ last.outcome = "ok"
    /\ Len(last.train_features) > 0
    /\ Len(last.test_features) > 0

SplitResult(call) ==
    <<call.train_features, call.train_labels, call.test_features,
      call.test_labels>>

-----------------------------------------------------------------------------
(* The DataHub facade (datahub/datahub.py).                                *)

\* Dataset(id, name, features, labels, metadata)
Dataset(id, name, features, labels, metadata) ==
    [id |-> id, name |-> name, features |-> features, labels |-> labels,
     metadata |-> metadata]

\* The filters a caller passes to list_datasets: none, an empty mapping, a
\* filter on a field, and a mapping that holds the key "page".
Filters ==
    <<None, EmptyTable, [dataType |-> "image"], [page |-> 7]>>

\* "if filters": None and the empty mapping are false.
HasFilters(k) == k > 2

\* params = {"page": page, "limit": limit}; params.update(filters)
Params(page, limit, k) ==
    LET params == [page |-> page, limit |-> limit]
    IN  IF HasFilters(k)
        THEN [x \in DOMAIN params \cup DOMAIN Filters[k] |->
                 IF x \in DOMAIN Filters[k] THEN Filters[k][x] ELSE params[x]]
        ELSE params

\* list_datasets(page, limit, filters), filters being Filters[k]
list_datasets(page, limit, k) ==
    [op |-> "list_datasets",
     args |-> [page |-> page, limit |-> limit, filters |-> k],
     outcome |-> "ok", msg |-> "", effects |-> << >>,
     params |-> Params(page, limit, k),
     returns |-> "list",
     result |->
        <<[id |-> "dataset-001",
           name |-> "MNIST Handwritten Digits",
           description |->
               "Dataset of handwritten digits for image classification",
           owner |-> "0x1234567890abcdef1234567890abcdef12345678",
           size |-> "11.5",
           samples |-> 70000,
           dataType |-> "image",
           license |-> "MIT",
           price |-> "10.0",
           created |-> "2023-05-15T10:30:00Z",
           validated |-> TRUE],
          [id |-> "dataset-002",
           name |-> "Twitter Sentiment Analysis",
           description |-> "Labeled tweets for sentiment analysis",
           owner |-> "0x2345678901abcdef2345678901abcdef23456789",
           size |-> "2.3",
           samples |-> 50000,
           dataType |-> "text",
           license |-> "CC BY-SA 4.0",
           price |-> "5.0",
           created |-> "2023-06-22T14:45:00Z",
           validated |-> TRUE]>>]

\* What load_dataset returns: a Dataset, or None after a printed message.
Loaded(dataset_id, ds) ==
    [op |-> "load_dataset", args |-> [dataset_id |-> dataset_id],
     outcome |-> "ok", msg |-> "", effects |-> << >>,
     returns |-> "Dataset", result |-> ds]

NotFound(dataset_id) ==
    [op |-> "load_dataset", args |-> [dataset_id |-> dataset_id],
     outcome |-> "ok", msg |-> "",
     effects |-> <<[kind |-> "print",
                    text |-> "Dataset " \o dataset_id \o " not found"]>>,
     returns |-> "None", result |-> None]

\* load_dataset, were it to answer the second identifier with the first
\* dataset.
load_dataset_second_as_first(dataset_id) ==
    IF dataset_id \in {"dataset-001", "dataset-002"}
    THEN Loaded(dataset_id,
             Dataset("dataset-001", "MNIST Handwritten Digits", << >>, << >>,
                 [description |->
                      "Dataset of handwritten digits for image classification",
                  owner |-> "0x1234567890abcdef1234567890abcdef12345678",
                  size |-> "11.5",
                  samples |-> 70000,
                  dataType |-> "image",
                  license |-> "MIT",
                  price |-> "10.0",
                  created |-> "2023-05-15T10:30:00Z",
                  validated |-> TRUE]))
    ELSE NotFound(dataset_id)

\* load_dataset(dataset_id)
load_dataset(dataset_id) ==
    IF dataset_id = "dataset-001"
    THEN Loaded(dataset_id,
             Dataset("dataset-001", "MNIST Handwritten Digits", << >>, << >>,
                 [description |->
                      "Dataset of handwritten digits for image classification",
                  owner |-> "0x1234567890abcdef1234567890abcdef12345678",
                  size |-> "11.5",
                  samples |-> 70000,
                  dataType |-> "image",
                  license |-> "MIT",
                  price |-> "10.0",
                  created |-> "2023-05-15T10:30:00Z",
                  validated |-> TRUE]))
    ELSE IF dataset_id = "dataset-002"
    THEN Loaded(dataset_id,
             Dataset("dataset-002", "Twitter Sentiment Analysis", << >>, << >>,
                 [description |-> "Labeled tweets for sentiment analysis",
                  owner |-> "0x2345678901abcdef2345678901abcdef23456789",
                  size |-> "2.3",
                  samples |-> 50000,
                  dataType |-> "text",
                  license |-> "CC BY-SA 4.0",
                  price |-> "5.0",
                  created |-> "2023-06-22T14:45:00Z",
                  validated |-> TRUE]))
    ELSE NotFound(dataset_id)

\* The identifiers callers ask for.
DatasetIds ==
    {"dataset-001", "dataset-002", "dataset-003", "Dataset-001", ""}

\* A call of the facade; prev_split keeps the record of the call before.
FacadeCall(record) ==
    /\ last' = record
    /\ prev_split' = last
    /\ UNCHANGED <<np_random, samples, split_args, pc>>
    /\ UNCHANGED clientVars

ListDatasets ==
    \E page \in 1..MaxPage, limit \in 1..MaxLimit, k \in DOMAIN Filters :
        FacadeCall(list_datasets(page, limit, k))

LoadDataset == \E dataset_id \in DatasetIds : FacadeCall(load_dataset(dataset_id))

InitFacade ==
    /\ NoClient
    /\ DatasetIdle
    /\ pc = "idle"
    /\ last = NoCall

NextFacade ==
    \/ ListDatasets
    \/ LoadDataset

SpecFacade == InitFacade /\ [][NextFacade]_vars

\* The entries of the listing in prev_split that have the identifier the
\* latest call asked for.
ListedAs ==
    {i \in DOMAIN prev_split.result :
        prev_split.result[i].id = last.args.dataset_id}

\* C15: load_dataset returns a Dataset exactly for the identifiers of the
\* entries list_datasets returns, with the identifier asked for and the
\* name and the metadata fields of that entry, and None, without raising,
\* for any other identifier; list_datasets returns the same entries
\* whatever its page, limit and filters.
C15_LoadAgreesWithList ==
    /\ (last.op = "load_dataset" /\ prev_split.op = "list_datasets") =>
           /\ last.outcome = "ok"
           /\ (last.returns = "Dataset") <=> (ListedAs # {})
           /\ last.returns # "Dataset" => last.returns = "None"
           /\ last.returns = "Dataset" =>
                  /\ last.result.id = last.args.dataset_id
                  /\ \A i \in ListedAs :
                         LET entry == prev_split.result[i]
                             metadata == last.result.metadata
                         IN  /\ last.result.name = entry.name
                             /\ DOMAIN metadata \subseteq DOMAIN entry
                             /\ DOMAIN entry \ DOMAIN metadata \subseteq
                                    {"id", "name"}
                             /\ \A f \in DOMAIN metadata :
                                    metadata[f] = entry[f]
    /\ (last.op = "list_datasets" /\ prev_split.op = "list_datasets") =>
           /\ last.outcome = "ok"
           /\ last.result = prev_split.result

\* The second listed dataset has been loaded after a listing with filters.
C15_Witness ==
    /\ prev_split.op = "list_datasets"
    /\ HasFilters(prev_split.args.filters)
    /\ last.op = "load_dataset"
    /\ last.returns = "Dataset"
    /\ last.result.id = "dataset-002"
    /\ last.result.metadata.license = "CC BY-SA 4.0"

-----------------------------------------------------------------------------
(* The transaction helper, statement by statement, on a client that another *)
(* thread reconfigures.                                                     *)

\* The contract functions the helper is called with.
HelperFunctions == {"approve", "joinDAO", "createTask"}

\* A thread enters _build_and_send_tx(contract_function); pc is the line it
\* is to execute next.
HelperEnter ==
    \E fn \in HelperFunctions :
        /\ pc = "idle"
        /\ pc' = "line 143"
        /\ last' = [op |-> "_build_and_send_tx", fn |-> fn,
                    outcome |-> "running", msg |-> "", effects |-> << >>,
                    from |-> None, nonce_of |-> None, signer |-> None]
        /\ UNCHANGED clientVars
        /\ UNCHANGED datasetVars

\* if not self.account: raise ValueError("Private key not provided")
HelperCheck ==
    /\ pc = "line 143"
    /\ IF account = None
       THEN /\ pc' = "idle"
            /\ last' = [last EXCEPT !.outcome = "ValueError",
                                    !.msg = "Private key not provided"]
       ELSE /\ pc' = "line 147"
            /\ last' = last
    /\ UNCHANGED clientVars
    /\ UNCHANGED datasetVars

\* 'from': self.account.address
HelperFrom ==
    /\ pc = "line 147"
    /\ pc' = "line 148"
    /\ last' = [last EXCEPT !.from = AddressOf(account)]
    /\ UNCHANGED clientVars
    /\ UNCHANGED datasetVars

\* 'nonce': self.w3.eth.get_transaction_count(self.account.address)
HelperNonce ==
    /\ pc = "line 148"
    /\ pc' = "line 154"
    /\ last' = [last EXCEPT !.nonce_of = AddressOf(account)]
    /\ UNCHANGED clientVars
    /\ UNCHANGED datasetVars

\* signed_tx = self.account.sign_transaction(tx)
HelperSign ==
    /\ pc = "line 154"
    /\ pc' = "line 155"
    /\ last' = [last EXCEPT !.signer = account]
    /\ UNCHANGED clientVars
    /\ UNCHANGED datasetVars

\* send_raw_transaction, wait_for_transaction_receipt, return
HelperSend ==
    /\ pc = "line 155"
    /\ pc' = "idle"
    /\ last' = [last EXCEPT
                   !.outcome = "ok",
                   !.effects = <<[kind |-> "tx", from |-> last.from,
                                  nonce_of |-> last.nonce_of,
                                  signer |-> last.signer, fn |-> last.fn]>>]
    /\ UNCHANGED clientVars
    /\ UNCHANGED datasetVars

\* Another thread runs set_private_key(private_key) on the same client, at
\* any point of the helper.
OtherThreadSetsPrivateKey ==
    \E private_key \in PrivateKeys :
        /\ account' = AccountFromKey(private_key)
        /\ UNCHANGED <<contract_registry_address, lighthouse_api_key,
                       contracts, lookups, w3, pc, last>>
        /\ UNCHANGED datasetVars

InitHelper ==
    /\ \E private_key \in {None} \cup PrivateKeys :
           Constructed(private_key, None, None, AllResolve)
    /\ pc = "idle"
    /\ last = ConstructorCall
    /\ DatasetIdle

NextHelper ==
    \/ HelperEnter
    \/ HelperCheck
    \/ HelperFrom
    \/ HelperNonce
    \/ HelperSign
    \/ HelperSend
    \/ OtherThreadSetsPrivateKey

SpecHelper == InitHelper /\ [][NextHelper]_vars

-----------------------------------------------------------------------------
(* The transaction helper and the node: one thread, one account, one run   *)
(* of the helper after another.  Only here is the node's state followed;   *)
(* elsewhere what the node answers is an input of each operation.          *)

\* The contract each function of HelperFunctions belongs to.
TargetOf(fn) ==
    IF fn = "approve" THEN "DataToken"
    ELSE IF fn = "joinDAO" THEN "MembershipManager"
    ELSE "TaskManager"

\* What the node keeps of a transaction the helper built: its sender, its
\* function, and its nonce, the sender's transaction count when it was
\* built.
NodeTx(tx) ==
    [from |-> tx.from, nonce |-> get_transaction_count(tx.from), fn |-> tx.fn]

SameSlot(t, u) == t.from = u.from /\ t.nonce = u.nonce

\* self.w3.eth.send_raw_transaction(signed_tx.rawTransaction), accepted.
send_raw_transaction(node, tx) ==
    [node EXCEPT !.pending = @ \cup {NodeTx(tx)},
                 !.accepted = Append(@, NodeTx(tx))]

\* The node puts a pending transaction in a block: the sender's count
\* advances, and pending transactions with the same sender and nonce are
\* dropped.
Mined(node, t) ==
    [node EXCEPT !.count[t.from] = @ + 1,
                 !.pending = {u \in @ : ~SameSlot(u, t)}]

\* The node after a run of the helper with the given effects: no
\* transaction was sent, or one was sent and its receipt not obtained, or
\* one was sent and wait_for_transaction_receipt returned its receipt.
NodeAfter(node, effects) ==
    IF effects = << >> THEN node
    ELSE IF Len(effects) = 1 THEN send_raw_transaction(node, effects[1])
    ELSE Mined(send_raw_transaction(node, effects[1]), NodeTx(effects[1]))

\* The caller runs _build_and_send_tx(contract_function) to its end.
HelperRun ==
    /\ pc = "idle"
    /\ Len(w3.accepted) < MaxTransactions
    /\ \E fn \in HelperFunctions, fault \in Faults :
         \E receipt \in Awaited(fault, PlainReceipts) :
           \E r \in {_build_and_send_tx(LogTarget(TargetOf(fn)), fn, << >>,
                                        fault, receipt)} :
             /\ pc' = "returned"
             /\ last' = [op |-> "_build_and_send_tx", fn |-> fn,
                         outcome |-> r.outcome, msg |-> r.msg,
                         effects |-> r.effects]
             /\ w3' = NodeAfter(w3, r.effects)
             /\ UNCHANGED <<account, contract_registry_address,
                            lighthouse_api_key, contracts, lookups>>
             /\ UNCHANGED datasetVars

\* The node puts in a block a pending transaction whose nonce is its
\* sender's count.
NodeMines ==
    \E t \in w3.pending :
        /\ t.nonce = w3.count[t.from]
        /\ w3' = Mined(w3, t)
        /\ UNCHANGED <<account, contract_registry_address, lighthouse_api_key,
                       contracts, lookups, pc, last>>
        /\ UNCHANGED datasetVars

InitNonce ==
    /\ \E private_key \in PrivateKeys :
           Constructed(private_key, "0xR1", None, AllResolve)
    /\ pc = "returned"
    /\ last = ConstructorCall
    /\ DatasetIdle

NextNonce ==
    \/ HelperRun
    \/ NodeMines
    \/ CallerContinues

SpecNonce == InitNonce /\ [][NextNonce]_vars

\* C21: in a single-threaded sequence of helper runs on one account, no two
\* transactions the client submitted carry the same nonce, also after a run
\* of the helper that ended with an error of the wait for the receipt.
C21_NoncesDistinct ==
    \A i, j \in 1..Len(w3.accepted) :
        i # j => ~SameSlot(w3.accepted[i], w3.accepted[j])

-----------------------------------------------------------------------------
(* Receipts that report failure.                                           *)

\* The key under which an operation returns the receipt of the transaction
\* of each contract function.
ReceiptKey ==
    [approve |-> "approve_tx", joinDAO |-> "join_tx",
     createTask |-> "create_tx", submitToTask |-> "submit_tx",
     validateSubmission |-> "validate_tx", createDataset |-> "create_tx",
     purchaseAccess |-> "purchase_tx", recordDatasetUsage |-> "record_tx",
     propose |-> "propose_tx", castVote |-> "vote_tx",
     executeProposal |-> "execute_tx", claimFromFaucet |-> "claim_tx"]

\* The receipt obtained at position i of the latest call's effects is in
\* the call's result, under the key of its transaction.
ReceiptInResult(i) ==
    LET key == ReceiptKey[last.effects[i].of]
    IN  /\ key \in DOMAIN last.result
        /\ last.result[key] = last.effects[i].receipt

\* No step of the latest call depended on the status of a receipt: after a
\* receipt of the approval the action was sent unless building, signing or
\* sending it failed, and a call that obtained the receipt of every run of
\* the helper it can make returned.
StatusNotInspected ==
    /\ last.op \in DOMAIN ApproveOps =>
           \A i \in EffectsOf({"receipt"}) :
               last.effects[i].of = "approve" =>
                   \/ /\ Len(last.effects) > i
                      /\ last.effects[i + 1].kind = "tx"
                      /\ last.effects[i + 1].fn = ApproveOps[last.op].action
                   \/ /\ Len(last.effects) = i
                      /\ last.outcome \in {"RpcError", "SigningError"}
                      /\ last.msg \in {"build", "sign", "send"}
    /\ Cardinality(EffectsOf({"receipt"})) = HelperCalls[last.op] =>
           last.outcome = "ok"

\* C22, as stated: a domain operation does not inspect the status of a
\* receipt, and every transaction-sending operation that returns has the
\* receipts it obtained in its result.
C22_ReceiptsInEveryResult ==
    (pc = "returned" /\ last.op \in KeyOps) =>
        /\ StatusNotInspected
        /\ last.outcome = "ok" =>
               \A i \in EffectsOf({"receipt"}) : ReceiptInResult(i)

\* C22, amended: a domain operation does not inspect the status of a
\* receipt: in join_dao, create_task and purchase_dataset_access the action
\* is sent whenever a receipt of the approval was obtained, and every
\* transaction-sending operation returns when it has obtained its receipts,
\* whatever their status; the receipts are in the result of every such
\* operation but access_dataset, whose result holds the dataset's
\* identifier, its content identifier and its content only.
C22_StatusNotInspected ==
    (pc = "returned" /\ last.op \in KeyOps) =>
        /\ StatusNotInspected
        /\ last.outcome = "ok" =>
               IF last.op = "access_dataset"
               THEN DOMAIN last.result = {"dataset_id", "data_cid", "content"}
               ELSE \A i \in EffectsOf({"receipt"}) : ReceiptInResult(i)

\* create_task has returned the receipts of an approval and of a createTask
\* transaction that both report failure.
C22_Witness ==
    /\ pc = "returned"
    /\ last.op = "create_task"
    /\ last.outcome = "ok"
    /\ last.effects[2].kind = "receipt"
    /\ last.effects[2].receipt.status = 0
    /\ last.effects[3].fn = "createTask"
    /\ last.result.approve_tx.status = 0
    /\ last.result.create_tx.status = 0

-----------------------------------------------------------------------------
(* The contract table after the registry was set again.                    *)

\* C23: after a call of set_contract_registry, every name of the contract
\* table other than 'ContractRegistry' is one the registry just set has
\* resolved, and refers to the address that registry returned for it; a
\* name whose lookup failed or returned the zero address is absent, even if
\* an earlier registry had resolved it.
C23_TableFollowsCurrentRegistry ==
    (last.op = "set_contract_registry" /\ last.outcome = "ok") =>
        \A i \in 1..Len(ContractNames) :
            LET name == ContractNames[i]
            IN  /\ lookups[i][1] = name
                /\ name \in DOMAIN contracts <=> lookups[i][2] = "ok"
                /\ name \in DOMAIN contracts =>
                       contracts[name] =
                           Deployed(contract_registry_address, name)

====
